---- MODULE Spec2Model ----
(***************************************************************************)
(* Model of the AI panel of the IDE (AIPanel component and the speech      *)
(* hooks it uses): the analysis run controller (debounced file analysis,   *)
(* selected-snippet analysis, batch merging) and the "rubber ducky" voice  *)
(* session (capture, model turn, playback); and of the part of the App     *)
(* component that feeds the panel (changed-line accumulation, snapshot     *)
(* refresh, file switch).                                                  *)
(*                                                                         *)
(* The program is single threaded: every action below is one event         *)
(* handler, timer callback or promise continuation, run to its next await, *)
(* together with the React effects that its state changes trigger.         *)
(***************************************************************************)
EXTENDS Integers, Sequences, FiniteSets, TLC

\* ------------------------------------------------------------------------
\* Bounds
\* ------------------------------------------------------------------------
\* number of voice turns (calls of processRubberDuckyTranscript that pass
\* the exit-phrase check) followed in one behaviour
MaxTurns == 3
\* number of voice sessions started in one behaviour
MaxSessions == 2
\* largest value of analysisRunRef followed in one behaviour
MaxRun == 3
\* longest text given to countChangedLines when all texts are enumerated
MaxTextLen == 3
\* longest text (in lines) given to extractPythonFunctions when all texts
\* are enumerated
MaxLines == 4
\* largest number of functions of a file whose batches are followed
MaxUnits == 11

\* ------------------------------------------------------------------------
\* Text: a string is a tuple of one-character strings
\* ------------------------------------------------------------------------
IsSpace(c) == c \in {" ", "\n"}

RECURSIVE TrimStart(_)
TrimStart(s) ==
    IF s = <<>> THEN <<>>
    ELSE IF IsSpace(Head(s)) THEN TrimStart(Tail(s)) ELSE s

RECURSIVE TrimEnd(_)
TrimEnd(s) ==
    IF s = <<>> THEN <<>>
    ELSE IF IsSpace(s[Len(s)]) THEN TrimEnd(SubSeq(s, 1, Len(s) - 1)) ELSE s

\* String.prototype.trim
Trim(s) == TrimEnd(TrimStart(s))

LowerChar(c) ==
    CASE c = "S" -> "s" [] c = "T" -> "t" [] c = "O" -> "o" [] c = "P" -> "p"
      [] c = "D" -> "d" [] c = "N" -> "n" [] c = "E" -> "e" [] c = "H" -> "h"
      [] c = "W" -> "w"
      [] OTHER -> c

\* String.prototype.toLowerCase
ToLowerCase(s) == [i \in 1..Len(s) |-> LowerChar(s[i])]

\* String.prototype.includes
Includes(s, p) ==
    \E i \in 1..(Len(s) - Len(p) + 1) : SubSeq(s, i, i + Len(p) - 1) = p

RUBBER_DUCKY_EXIT_PHRASES ==
    << <<"s","t","o","p">>,
       <<"d","o","n","e">>,
       <<"e","n","d"," ","s","e","s","s","i","o","n">>,
       <<"t","h","a","t","'","s"," ","a","l","l">>,
       <<"w","e","'","r","e"," ","d","o","n","e">> >>

\* what the speech provider may report as the text heard so far
Utterances ==
    { <<" ">>,
      <<" ","S","T","O","P"," ">>,
      <<"h","i">>,
      <<"n","o","n","s","t","o","p">> }

\* ------------------------------------------------------------------------
\* State
\* ------------------------------------------------------------------------
VARIABLES
    \* build-time environment (import.meta.env)
    geminiKey,                  \* VITE_GEMINI_API_KEY is set
    elevenLabsKey,              \* VITE_ELEVENLABS_API_KEY is set
    openAiKey,                  \* VITE_OPENAI_API_KEY is set
    \* AIPanel, shared
    mode,                       \* "teacher" | "reviewer" | "vibe" | "voice"
    \* AIPanel, voice session
    sessionActive,
    conversationHistory,        \* sequence of ConversationMessage
    rubberDuckyStatus,          \* "idle" | "listening" | "processing" | "speaking"
    voiceTranscript,
    pendingTranscriptProcessRef,
    turns,                      \* the calls of processRubberDuckyTranscript
    nextTurn,                   \* number of turns started so far
    sessionId,                  \* number of sessions started so far
    \* useSpeechRecognition
    isListening,
    transcript,
    recognitionRunning,         \* the provider's recogniser is between start and end
    \* useTextToSpeech
    isSpeaking,
    elevenLabsCancelRef,        \* turn whose playback the ref can cancel, 0 = null
    \* AIPanel, analysis runs
    code,
    fileName,
    analysisRunRef,
    timer,                      \* the pending debounce timeouts, each with the
                                \* (code, fileName) its callback captured
    runs,                       \* the calls of analyzeCode / analyzeSelectedSnippet
    explanation,                \* the lines of the explanation string
    isAnalyzing,
    lastGeminiResponse,
    \* AIPanel, vibe edits
    statusMessage,
    statusCalls,                \* the messages the last call of runVibeTask
                                \* passed to setStatusMessage, in order
    vibeTask,                   \* the last call of runVibeTask, with the
                                \* fileName and code its closure captured
    \* App (its state aiPanelCode and currentFile are the panel's props code
    \* and fileName above)
    filesContent,
    pendingAiLineChangesRef,
    previousAiFileRef,
    changedLines,               \* the local changedLines of the last handleCodeChange
    \* bookkeeping
    lastEvent                   \* the handler that ran last, and the turn or run it ran for

envVars == <<geminiKey, elevenLabsKey, openAiKey>>
voiceVars == <<sessionActive, conversationHistory, rubberDuckyStatus, voiceTranscript,
               pendingTranscriptProcessRef, turns, nextTurn, sessionId>>
recognitionVars == <<isListening, transcript, recognitionRunning>>
speechVars == <<isSpeaking, elevenLabsCancelRef>>
analysisVars == <<code, fileName, analysisRunRef, timer, runs, explanation,
                  isAnalyzing, lastGeminiResponse>>
appVars == <<filesContent, pendingAiLineChangesRef, previousAiFileRef, changedLines>>
vibeVars == <<statusMessage, statusCalls, vibeTask>>
vars == <<envVars, mode, voiceVars, recognitionVars, speechVars, analysisVars, appVars,
          vibeVars, lastEvent>>

Event(op, n) == [op |-> op, id |-> n]

AnalyzableModes == {"teacher", "reviewer"}
Modes == {"teacher", "reviewer", "vibe", "voice"}

\* ------------------------------------------------------------------------
\* Debounce effect of AIPanel, deps [code, fileName, mode]: the cleanup of
\* the previous effect run (present only if that run armed a timer, that is
\* if the mode was an analyzed one) and the new effect run, which reads the
\* new props c and f.
\* ------------------------------------------------------------------------
\* setTimeout(() => { void analyzeCode(code, fileName); }, 1500)
Timeout(c, f) == [code |-> c, fileName |-> f]

\* a cleanup that lowers the run id
DebounceEffect_CountDown(oldMode, newMode, c, f) ==
    /\ analysisRunRef' = IF oldMode \in AnalyzableModes
                         THEN analysisRunRef - 1 ELSE analysisRunRef
    /\ timer' = (IF oldMode \in AnalyzableModes
                 THEN timer \ {Timeout(code, fileName)} ELSE timer)
                \cup (IF newMode \in AnalyzableModes THEN {Timeout(c, f)} ELSE {})

\* a cleanup that forgets clearTimeout
DebounceEffect_NoClear(oldMode, newMode, c, f) ==
    /\ analysisRunRef' = IF oldMode \in AnalyzableModes
                         THEN analysisRunRef + 1 ELSE analysisRunRef
    /\ analysisRunRef' <= MaxRun
    /\ timer' = timer \cup (IF newMode \in AnalyzableModes THEN {Timeout(c, f)} ELSE {})

DebounceEffect(oldMode, newMode, c, f) ==
    /\ analysisRunRef' = IF oldMode \in AnalyzableModes
                         THEN analysisRunRef + 1 ELSE analysisRunRef
    /\ analysisRunRef' <= MaxRun
    /\ timer' = (IF oldMode \in AnalyzableModes
                 THEN timer \ {Timeout(code, fileName)} ELSE timer)
                \cup (IF newMode \in AnalyzableModes THEN {Timeout(c, f)} ELSE {})

\* ------------------------------------------------------------------------
\* Voice session
\* ------------------------------------------------------------------------
UserMsg(t) == [role |-> "user", turn |-> t, content |-> "transcript"]
ModelMsg(t, c) == [role |-> "model", turn |-> t, content |-> c]

TurnIds == 1..MaxTurns
NoTurn == [pc |-> "none", session |-> 0]

\* the exit check without toLowerCase()
ShouldExit_CaseSensitive(trimmed) ==
    \E k \in 1..Len(RUBBER_DUCKY_EXIT_PHRASES) :
        Includes(trimmed, RUBBER_DUCKY_EXIT_PHRASES[k])

\* trimmed.toLowerCase().includes(p) for some exit phrase p
ShouldExit(trimmed) ==
    \E k \in 1..Len(RUBBER_DUCKY_EXIT_PHRASES) :
        Includes(ToLowerCase(trimmed), RUBBER_DUCKY_EXIT_PHRASES[k])

\* endRubberDuckySession (rubberDuckyContextRef is not modelled)
EndRubberDuckySession ==
    /\ sessionActive' = FALSE
    /\ conversationHistory' = <<>>
    /\ rubberDuckyStatus' = "idle"
    /\ voiceTranscript' = <<>>
    /\ pendingTranscriptProcessRef' = FALSE

\* the turn without its catch block: the failure rejects the promise of
\* processRubberDuckyTranscript
CatchTurnFailure_Rethrow(t, base) ==
    /\ conversationHistory' = base
    /\ UNCHANGED rubberDuckyStatus
    /\ turns' = [turns EXCEPT ![t].pc = "rejected"]

\* the catch block of processRubberDuckyTranscript, reached with the history
\* `base` when the model call, or speak(), fails in turn t
CatchTurnFailure(t, base) ==
    /\ conversationHistory' = Append(base, ModelMsg(t, "errorMessage"))
    /\ rubberDuckyStatus' = "idle"
    /\ turns' = [turns EXCEPT ![t].pc = "done"]

\* processRubberDuckyTranscript up to its first await; the caller has
\* cleared pendingTranscriptProcessRef
ProcessRubberDuckyTranscript(userText) ==
    LET trimmed == Trim(userText)
        t == nextTurn + 1
    IN  IF trimmed = <<>>
        THEN /\ pendingTranscriptProcessRef' = FALSE
             /\ UNCHANGED <<sessionActive, conversationHistory, rubberDuckyStatus,
                            voiceTranscript, turns, nextTurn>>
        ELSE IF ShouldExit(trimmed)
        THEN /\ EndRubberDuckySession
             /\ UNCHANGED <<turns, nextTurn>>
        ELSE /\ nextTurn < MaxTurns
             /\ nextTurn' = t
             /\ pendingTranscriptProcessRef' = FALSE
             /\ UNCHANGED <<sessionActive, voiceTranscript>>
             /\ IF ~geminiKey
                THEN \* no credential: fallback message, no request
                     /\ conversationHistory' =
                            conversationHistory \o <<UserMsg(t), ModelMsg(t, "keyMissing")>>
                     /\ rubberDuckyStatus' = "idle"
                     /\ turns' = [turns EXCEPT ![t] = [pc |-> "done", session |-> sessionId]]
                ELSE \* chat.sendMessage(trimmed) is awaited
                     /\ conversationHistory' = Append(conversationHistory, UserMsg(t))
                     /\ rubberDuckyStatus' = "processing"
                     /\ turns' = [turns EXCEPT ![t] = [pc |-> "awaitModel", session |-> sessionId]]

\* the effect without its else branch: an empty transcript leaves the status
PendingTranscriptEffect_NoIdle(listening, pending) ==
    IF ~listening /\ pending /\ sessionActive /\ mode = "voice"
    THEN LET textToProcess == IF Trim(transcript) # <<>>
                              THEN Trim(transcript) ELSE Trim(voiceTranscript)
         IN  IF textToProcess # <<>>
             THEN ProcessRubberDuckyTranscript(textToProcess)
             ELSE /\ pendingTranscriptProcessRef' = FALSE
                  /\ UNCHANGED <<sessionActive, conversationHistory, rubberDuckyStatus,
                                 voiceTranscript, turns, nextTurn>>
    ELSE /\ pendingTranscriptProcessRef' = pending
         /\ UNCHANGED <<sessionActive, conversationHistory, rubberDuckyStatus,
                        voiceTranscript, turns, nextTurn>>

\* the effect with deps [isListening, sessionActive, mode, transcript,
\* voiceTranscript, processRubberDuckyTranscript], run with the given values of
\* isListening and pendingTranscriptProcessRef
PendingTranscriptEffect(listening, pending) ==
    IF ~listening /\ pending /\ sessionActive /\ mode = "voice"
    THEN LET textToProcess == IF Trim(transcript) # <<>>
                              THEN Trim(transcript) ELSE Trim(voiceTranscript)
         IN  IF textToProcess # <<>>
             THEN ProcessRubberDuckyTranscript(textToProcess)
             ELSE /\ rubberDuckyStatus' = "idle"
                  /\ pendingTranscriptProcessRef' = FALSE
                  /\ UNCHANGED <<sessionActive, conversationHistory, voiceTranscript,
                                 turns, nextTurn>>
    ELSE /\ pendingTranscriptProcessRef' = pending
         /\ UNCHANGED <<sessionActive, conversationHistory, rubberDuckyStatus,
                        voiceTranscript, turns, nextTurn>>

\* the voice controls are rendered in voice mode only
VoiceControlsShown == mode = "voice"
\* the record button is rendered in an active session and disabled while
\* the status is processing
RecordButtonEnabled ==
    VoiceControlsShown /\ sessionActive /\ rubberDuckyStatus # "processing"

\* "Start session" button
StartRubberDuckySession ==
    /\ VoiceControlsShown /\ ~sessionActive
    /\ sessionId < MaxSessions
    /\ sessionId' = sessionId + 1
    /\ sessionActive' = TRUE
    /\ conversationHistory' = <<>>
    /\ rubberDuckyStatus' = "idle"
    /\ voiceTranscript' = <<>>
    /\ lastEvent' = Event("StartRubberDuckySession", sessionId + 1)
    /\ UNCHANGED <<pendingTranscriptProcessRef, turns, nextTurn>>
    /\ UNCHANGED <<appVars, envVars, vibeVars, mode, recognitionVars, speechVars, analysisVars>>

\* "Done" button
Done ==
    /\ VoiceControlsShown /\ sessionActive
    /\ EndRubberDuckySession
    /\ lastEvent' = Event("Done", sessionId)
    /\ UNCHANGED <<turns, nextTurn, sessionId>>
    /\ UNCHANGED <<appVars, envVars, vibeVars, mode, recognitionVars, speechVars, analysisVars>>

\* record button while not listening: setRubberDuckyStatus("listening"),
\* start(); start() of the recogniser throws when it is still running
StartCapture ==
    /\ RecordButtonEnabled /\ ~isListening
    /\ rubberDuckyStatus' = "listening"
    /\ transcript' = <<>>
    /\ IF recognitionRunning
       THEN /\ isListening' = FALSE
            /\ UNCHANGED <<recognitionRunning, voiceTranscript>>
       ELSE /\ isListening' = TRUE
            /\ recognitionRunning' = TRUE
            /\ voiceTranscript' = <<>>
    /\ lastEvent' = Event("StartCapture", 0)
    /\ UNCHANGED <<sessionActive, conversationHistory, pendingTranscriptProcessRef,
                   turns, nextTurn, sessionId>>
    /\ UNCHANGED <<appVars, envVars, vibeVars, mode, speechVars, analysisVars>>

\* record button while listening: pendingTranscriptProcessRef = true, stop();
\* the pending transcript effect runs on the change of isListening
StopCapture ==
    /\ RecordButtonEnabled /\ isListening
    /\ isListening' = FALSE
    /\ PendingTranscriptEffect(FALSE, TRUE)
    /\ lastEvent' = Event("StopCapture", 0)
    /\ UNCHANGED <<sessionId, transcript, recognitionRunning>>
    /\ UNCHANGED <<appVars, envVars, vibeVars, mode, speechVars, analysisVars>>

\* recognition.onresult: the recognised text so far, trimmed; the effect with
\* deps [isListening, transcript] copies it to voiceTranscript
OnResult(u) ==
    /\ recognitionRunning
    /\ transcript' = Trim(u)
    /\ voiceTranscript' = IF isListening THEN Trim(u) ELSE voiceTranscript
    /\ lastEvent' = Event("OnResult", 0)
    /\ UNCHANGED <<sessionActive, conversationHistory, rubberDuckyStatus,
                   pendingTranscriptProcessRef, turns, nextTurn, sessionId>>
    /\ UNCHANGED <<isListening, recognitionRunning>>
    /\ UNCHANGED <<appVars, envVars, vibeVars, mode, speechVars, analysisVars>>

\* recognition.onend: the recogniser has stopped
OnEnd ==
    /\ recognitionRunning
    /\ recognitionRunning' = FALSE
    /\ isListening' = FALSE
    /\ PendingTranscriptEffect(FALSE, pendingTranscriptProcessRef)
    /\ lastEvent' = Event("OnEnd", 0)
    /\ UNCHANGED <<sessionId, transcript>>
    /\ UNCHANGED <<appVars, envVars, vibeVars, mode, speechVars, analysisVars>>

\* recognition.onerror (it changes state only while listening); the
\* recogniser's end event follows
OnError ==
    /\ recognitionRunning
    /\ isListening
    /\ isListening' = FALSE
    /\ PendingTranscriptEffect(FALSE, pendingTranscriptProcessRef)
    /\ lastEvent' = Event("OnError", 0)
    /\ UNCHANGED <<sessionId, transcript, recognitionRunning>>
    /\ UNCHANGED <<appVars, envVars, vibeVars, mode, speechVars, analysisVars>>

\* chat.sendMessage resolves in turn t with a reply whose trimmed text is
\* empty or not; the reply is appended, the status set to speaking and
\* speak(aiText) called.  speak returns a resolved promise for an empty text,
\* throws without the ElevenLabs key, and otherwise starts the request of
\* speakWithElevenLabs and is awaited.
ModelReply(t, emptyText) ==
    /\ turns[t].pc = "awaitModel"
    /\ LET replied == Append(conversationHistory, ModelMsg(t, "reply"))
       IN  IF emptyText
           THEN /\ conversationHistory' = replied
                /\ rubberDuckyStatus' = "idle"
                /\ turns' = [turns EXCEPT ![t].pc = "done"]
                /\ UNCHANGED speechVars
           ELSE IF ~elevenLabsKey
           THEN /\ CatchTurnFailure(t, replied)
                /\ UNCHANGED speechVars
           ELSE /\ conversationHistory' = replied
                /\ rubberDuckyStatus' = "speaking"
                /\ isSpeaking' = TRUE
                /\ elevenLabsCancelRef' = t
                /\ turns' = [turns EXCEPT ![t].pc = "awaitSpeak"]
    /\ lastEvent' = Event("ModelReply", t)
    /\ UNCHANGED <<sessionActive, voiceTranscript, pendingTranscriptProcessRef,
                   nextTurn, sessionId>>
    /\ UNCHANGED <<appVars, envVars, vibeVars, mode, recognitionVars, analysisVars>>

\* chat.sendMessage (or response.text()) throws in turn t
ModelFail(t) ==
    /\ turns[t].pc = "awaitModel"
    /\ CatchTurnFailure(t, conversationHistory)
    /\ lastEvent' = Event("ModelFail", t)
    /\ UNCHANGED <<sessionActive, voiceTranscript, pendingTranscriptProcessRef,
                   nextTurn, sessionId>>
    /\ UNCHANGED <<appVars, envVars, vibeVars, mode, recognitionVars, speechVars, analysisVars>>

\* audio.onended: the promise of speak() resolves (its then() clears the
\* hook's state) and processRubberDuckyTranscript sets the status to idle
PlaybackEnd(t) ==
    /\ turns[t].pc = "awaitSpeak"
    /\ elevenLabsCancelRef' = 0
    /\ isSpeaking' = FALSE
    /\ rubberDuckyStatus' = "idle"
    /\ turns' = [turns EXCEPT ![t].pc = "done"]
    /\ lastEvent' = Event("PlaybackEnd", t)
    /\ UNCHANGED <<sessionActive, conversationHistory, voiceTranscript,
                   pendingTranscriptProcessRef, nextTurn, sessionId>>
    /\ UNCHANGED <<appVars, envVars, vibeVars, mode, recognitionVars, analysisVars>>

\* the ElevenLabs request or the audio element fails: the promise of speak()
\* rejects (its catch() clears the hook's state and rethrows)
PlaybackFail(t) ==
    /\ turns[t].pc = "awaitSpeak"
    /\ elevenLabsCancelRef' = 0
    /\ isSpeaking' = FALSE
    /\ CatchTurnFailure(t, conversationHistory)
    /\ lastEvent' = Event("PlaybackFail", t)
    /\ UNCHANGED <<sessionActive, voiceTranscript, pendingTranscriptProcessRef,
                   nextTurn, sessionId>>
    /\ UNCHANGED <<appVars, envVars, vibeVars, mode, recognitionVars, analysisVars>>

\* the mode selector; the debounce effect and the pending transcript effect
\* have mode among their deps
SetMode(m) ==
    /\ m # mode
    /\ mode' = m
    /\ DebounceEffect(mode, m, code, fileName)
    /\ lastEvent' = Event("SetMode", 0)
    /\ UNCHANGED <<code, fileName, runs, explanation, isAnalyzing, lastGeminiResponse>>
    /\ UNCHANGED <<appVars, envVars, vibeVars, voiceVars, recognitionVars, speechVars>>

VoiceInit ==
    /\ sessionActive = FALSE
    /\ conversationHistory = <<>>
    /\ rubberDuckyStatus = "idle"
    /\ voiceTranscript = <<>>
    /\ pendingTranscriptProcessRef = FALSE
    /\ turns = [t \in TurnIds |-> NoTurn]
    /\ nextTurn = 0
    /\ sessionId = 0
    /\ isListening = FALSE
    /\ transcript = <<>>
    /\ recognitionRunning = FALSE
    /\ isSpeaking = FALSE
    /\ elevenLabsCancelRef = 0

\* ------------------------------------------------------------------------
\* Analysis runs
\* ------------------------------------------------------------------------
\* A text is a sequence of lines; a line is kept as what the extractor reads
\* of it: its indentation (normalizeIndent), whether it matches the def
\* pattern (and the name it captures), the decorator pattern, or is blank.
DefLine(d, n) == [kind |-> "def", indent |-> d, name |-> n]
DecoratorLine(d) == [kind |-> "decorator", indent |-> d, name |-> ""]
CodeLine(d) == [kind |-> "code", indent |-> d, name |-> ""]
BlankLine == [kind |-> "blank", indent |-> 0, name |-> ""]

\* line.trim() is empty
IsBlank(line) == line.kind = "blank"

\* a decorator scan that does not compare the indentation
RECURSIVE DecoratorStart_AnyIndent(_, _, _)
DecoratorStart_AnyIndent(lines, start, defIndent) ==
    IF start > 1
       /\ ~IsBlank(lines[start - 1])
       /\ lines[start - 1].kind = "decorator"
    THEN DecoratorStart_AnyIndent(lines, start - 1, defIndent)
    ELSE start

\* first line (1-based) of the unit whose def line is `start`: the decorator
\* lines of the same indentation directly above it
RECURSIVE DecoratorStart(_, _, _)
DecoratorStart(lines, start, defIndent) ==
    IF start > 1
       /\ ~IsBlank(lines[start - 1])
       /\ lines[start - 1].kind = "decorator"
       /\ lines[start - 1].indent = defIndent
    THEN DecoratorStart(lines, start - 1, defIndent)
    ELSE start

\* an end scan that a blank line stops
RECURSIVE BlockEnd_StopAtBlank(_, _, _)
BlockEnd_StopAtBlank(lines, end, defIndent) ==
    IF end > Len(lines) THEN end
    ELSE IF IsBlank(lines[end]) THEN end
    ELSE IF lines[end].indent <= defIndent THEN end
    ELSE BlockEnd_StopAtBlank(lines, end + 1, defIndent)

\* first line (1-based) after the unit, scanning from `end`
RECURSIVE BlockEnd(_, _, _)
BlockEnd(lines, end, defIndent) ==
    IF end > Len(lines) THEN end
    ELSE IF IsBlank(lines[end]) THEN BlockEnd(lines, end + 1, defIndent)
    ELSE IF lines[end].indent <= defIndent THEN end
    ELSE BlockEnd(lines, end + 1, defIndent)

RECURSIVE ExtractFrom(_, _)
ExtractFrom(lines, i) ==
    IF i > Len(lines) THEN <<>>
    ELSE IF lines[i].kind # "def" THEN ExtractFrom(lines, i + 1)
    ELSE LET start == DecoratorStart(lines, i, lines[i].indent)
             end == BlockEnd(lines, i + 1, lines[i].indent)
         IN  <<[functionName |-> lines[i].name,
                source |-> SubSeq(lines, start, end - 1)]>>
             \o ExtractFrom(lines, end)

\* the same scan, keeping for each unit the line of its def and the lines
\* it spans: from `start` up to but not including `end`
RECURSIVE ExtractRanges(_, _)
ExtractRanges(lines, i) ==
    IF i > Len(lines) THEN <<>>
    ELSE IF lines[i].kind # "def" THEN ExtractRanges(lines, i + 1)
    ELSE LET start == DecoratorStart(lines, i, lines[i].indent)
             end == BlockEnd(lines, i + 1, lines[i].indent)
         IN  <<[def |-> i, start |-> start, end |-> end]>> \o ExtractRanges(lines, end)

extractPythonFunctions(codeContent) == ExtractFrom(codeContent, 1)

\* the initial content of main.py
MainPy ==
    << CodeLine(0), CodeLine(0), BlankLine, BlankLine,
       DefLine(0, "main"), CodeLine(4), CodeLine(4), CodeLine(8),
       BlankLine, BlankLine, CodeLine(0), CodeLine(4), BlankLine >>
\* the initial content of utils.py
UtilsPy == << DefLine(0, "greet"), CodeLine(4), BlankLine >>
\* a text without function definitions
ReadmeMd == << CodeLine(0), BlankLine >>
\* main.py edited to hold six functions, one of them decorated
SixFunctions ==
    << DefLine(0, "a"), CodeLine(4),
       DefLine(0, "b"), CodeLine(4),
       DecoratorLine(0), DefLine(0, "c"), CodeLine(4),
       DefLine(0, "d"), CodeLine(4),
       DefLine(0, "e"), CodeLine(4),
       DefLine(0, "f"), CodeLine(4) >>
\* a selection that is only white space
BlankText == << BlankLine >>

\* the (code, fileName) props the App component may pass to the panel
PanelProps ==
    { <<MainPy, "main.py">>, <<SixFunctions, "main.py">>,
      <<UtilsPy, "utils.py">>, <<ReadmeMd, "README.md">> }
\* the selectedCode prop at the moment the analyze-selection button is used
Selections == { BlankText, ReadmeMd, UtilsPy, SixFunctions }

batchSize == 5

RunIds == 1..MaxRun
NoRun == [pc |-> "none", kind |-> "none", units |-> <<>>, i |-> 0]

Min(a, b) == IF a < b THEN a ELSE b

\* a slice one unit short
BatchOf_Short(units, i) == SubSeq(units, i + 1, Min(i + batchSize - 1, Len(units)))

\* extractedFunctions.slice(i, i + batchSize)
BatchOf(units, i) == SubSeq(units, i + 1, Min(i + batchSize, Len(units)))

BatchNames(batch) == { batch[k].functionName : k \in 1..Len(batch) }

\* the names a parsed response may answer: all of the batch, none, all but
\* the first
AnsweredSets(batch) ==
    { BatchNames(batch), {},
      { batch[k].functionName : k \in 2..Len(batch) } }

\* a JavaScript value as far as typeof and truthiness see it
JsString(v) == [typeof |-> "string", value |-> v]
JsUndefined == [typeof |-> "undefined", value |-> ""]

\* a response text, kept as what JSON.parse makes of it: whether it is JSON
\* at all, and the items of the array it holds; and, around that body, the
\* pieces of text before and after it: fence markers, the language tag,
\* line breaks and spaces
NotJson == [json |-> FALSE, items |-> <<>>, before |-> <<>>, after |-> <<>>]
JsonArray(items) == [json |-> TRUE, items |-> items, before |-> <<>>, after |-> <<>>]
Fenced(text, opening, closing) == [text EXCEPT !.before = opening, !.after = closing]

\* the fences a model puts around its answer ("fence" is the marker of
\* three backquotes, "json" the language tag): with or without the
\* language tag, with or without a line break after the closing marker
FenceOpenings == { <<"fence", "json", "\n">>, <<"fence", "\n">> }
FenceClosings == { <<"\n", "fence">>, <<"\n", "fence", "\n">> }

\* the pieces of a response text, its body being one piece
Pieces(text) == text.before \o <<"body">> \o text.after

\* the first replace of parseJsonFromModelText: the first fence marker
\* that the tag follows (in either case) is removed with the tag and the
\* white space after it
RECURSIVE SkipSpace(_)
SkipSpace(s) == IF s # <<>> /\ IsSpace(Head(s)) THEN SkipSpace(Tail(s)) ELSE s
RECURSIVE ReplaceTaggedFence(_)
ReplaceTaggedFence(s) ==
    IF Len(s) < 2 THEN s
    ELSE IF s[1] = "fence" /\ s[2] \in {"json", "JSON"} THEN SkipSpace(Tail(Tail(s)))
    ELSE <<Head(s)>> \o ReplaceTaggedFence(Tail(s))

\* the second replace: a fence marker that ends the text is removed
ReplaceFenceAtEnd(s) ==
    IF s # <<>> /\ s[Len(s)] = "fence" THEN SubSeq(s, 1, Len(s) - 1) ELSE s

\* cleaned
Cleaned(text) == Trim(ReplaceFenceAtEnd(ReplaceTaggedFence(Pieces(text))))

\* JSON.parse(cleaned) returns: the body is JSON and nothing but the body
\* is left
JsonParses(text) == text.json /\ Cleaned(text) = <<"body">>

\* an array with an item {functionName, explanation} for each unit of the
\* batch whose name is in `answered`
ItemsFor(batch, answered) ==
    LET named == SelectSeq(batch, LAMBDA fn : fn.functionName \in answered)
    IN  [k \in 1..Len(named) |->
            [functionName |-> JsString(named[k].functionName),
             explanation |-> JsString("explanation")]]

\* an array with an item for every unit, the last item without explanation
LastItemIncomplete(batch) ==
    LET items == ItemsFor(batch, BatchNames(batch))
    IN  [items EXCEPT ![Len(items)].explanation = JsUndefined]

\* the response texts a batch request may return
Responses(batch) ==
    { NotJson }
    \cup { JsonArray(ItemsFor(batch, S)) : S \in AnsweredSets(batch) }
    \cup (IF batch = <<>> THEN {} ELSE { JsonArray(LastItemIncomplete(batch)) })
    \cup { Fenced(JsonArray(ItemsFor(batch, BatchNames(batch))), o, c) :
               o \in FenceOpenings, c \in FenceClosings }

\* a parseJsonFromModelText without the check of the items
parseJsonFromModelText_Unchecked(text) ==
    IF ~JsonParses(text) THEN [threw |-> TRUE, items |-> <<>>]
    ELSE [threw |-> FALSE, items |-> text.items]

\* JSON.parse throws, or an item fails the shape check, or the array is
\* returned
parseJsonFromModelText(text) ==
    IF ~JsonParses(text) THEN [threw |-> TRUE, items |-> <<>>]
    ELSE IF \E k \in 1..Len(text.items) :
                \/ text.items[k].functionName.typeof # "string"
                \/ text.items[k].explanation.typeof # "string"
         THEN [threw |-> TRUE, items |-> <<>>]
         ELSE [threw |-> FALSE, items |-> text.items]

\* the try block on a response text: the catch branch if parsing throws,
\* else parsedByName, of which `answered` are the names with a truthy
\* explanation
OutcomeOf(text) ==
    LET parsed == parseJsonFromModelText(text)
    IN  IF parsed.threw
        THEN [kind |-> "malformed", answered |-> {}, text |-> text]
        ELSE [kind |-> "parsed",
              answered |-> { parsed.items[k].functionName.value :
                                k \in { j \in 1..Len(parsed.items) :
                                           parsed.items[j].explanation.value # "" } },
              text |-> text]

\* what a batch request may resolve to: generateContent throws, or it
\* returns a response text
Outcomes(batch) ==
    { [kind |-> "transportError", answered |-> {}, text |-> NotJson] }
    \cup { OutcomeOf(text) : text \in Responses(batch) }

StatusLine(r, text) == [line |-> "status", run |-> r, functionName |-> "", text |-> text]
EntryLine(r, n, text) == [line |-> "entry", run |-> r, functionName |-> n, text |-> text]

Fallback == "Unable to analyze this function."

\* the lines a resolved batch appends to the explanation: the try branch
\* (parsedByName.get(name) || fallback) or the catch branch (fallback)
BatchLines(r, batch, outcome) ==
    [k \in 1..Len(batch) |->
        EntryLine(r, batch[k].functionName,
                  IF outcome.kind = "parsed" /\ batch[k].functionName \in outcome.answered
                  THEN "explanation" ELSE Fallback)]

\* a loop that begins one batch further than it was told to
LoopHead_SkipBatch(r, kind, units, i, ref, busy) ==
    LET j == i + batchSize
        at(pc) == [runs EXCEPT ![r] = [pc |-> pc, kind |-> kind, units |-> units, i |-> j]]
    IN  IF j < Len(units)
        THEN /\ runs' = at(IF ref # r THEN "returned" ELSE "await")
             /\ isAnalyzing' = busy
        ELSE /\ runs' = at("done")
             /\ isAnalyzing' = IF ref = r THEN FALSE ELSE busy

\* a loop without the staleness check at its head
LoopHead_NoCheck(r, kind, units, i, ref, busy) ==
    LET at(pc) == [runs EXCEPT ![r] = [pc |-> pc, kind |-> kind, units |-> units, i |-> i]]
    IN  IF i < Len(units)
        THEN /\ runs' = at("await")
             /\ isAnalyzing' = busy
        ELSE /\ runs' = at("done")
             /\ isAnalyzing' = IF ref = r THEN FALSE ELSE busy

\* a loop that clears isAnalyzing after its last batch whatever the run id
LoopHead_AlwaysClear(r, kind, units, i, ref, busy) ==
    LET at(pc) == [runs EXCEPT ![r] = [pc |-> pc, kind |-> kind, units |-> units, i |-> i]]
    IN  IF i < Len(units)
        THEN /\ runs' = at(IF ref # r THEN "returned" ELSE "await")
             /\ isAnalyzing' = busy
        ELSE /\ runs' = at("done")
             /\ isAnalyzing' = FALSE

\* the head of the batch loop for the batch starting at i, reached with
\* analysisRunRef = ref and isAnalyzing = busy: the staleness check and the
\* request, or after the last batch the clearing of isAnalyzing
LoopHead(r, kind, units, i, ref, busy) ==
    LET at(pc) == [runs EXCEPT ![r] = [pc |-> pc, kind |-> kind, units |-> units, i |-> i]]
    IN  IF i < Len(units)
        THEN /\ runs' = at(IF ref # r THEN "returned" ELSE "await")
             /\ isAnalyzing' = busy
        ELSE /\ runs' = at("done")
             /\ isAnalyzing' = IF ref = r THEN FALSE ELSE busy

\* the debounce timer expires: analyzeCode(code, fileName) up to its first
\* await.  getModel() throws without the Gemini key, which rejects the
\* promise of analyzeCode (the caller discards it with void).
TimerFire ==
    /\ analysisRunRef < MaxRun
    /\ \E t \in timer :
       LET r == analysisRunRef + 1
           units == extractPythonFunctions(t.code)
       IN  /\ timer' = timer \ {t}
           /\ analysisRunRef' = r
           /\ lastGeminiResponse' = <<>>
           /\ lastEvent' = Event("TimerFire", r)
           /\ IF units = <<>>
              THEN /\ explanation' = <<StatusLine(r, "No Python functions found for analysis.")>>
                   /\ isAnalyzing' = FALSE
                   /\ runs' = [runs EXCEPT ![r] = [pc |-> "done", kind |-> "file",
                                                    units |-> units, i |-> 0]]
              ELSE /\ explanation' = <<StatusLine(r, "Analyzing function(s) in batch(es)")>>
                   /\ IF ~geminiKey
                      THEN /\ isAnalyzing' = TRUE
                           /\ runs' = [runs EXCEPT ![r] = [pc |-> "rejected", kind |-> "file",
                                                            units |-> units, i |-> 0]]
                      ELSE LoopHead(r, "file", units, 0, r, TRUE)
    /\ UNCHANGED <<code, fileName>>
    /\ UNCHANGED <<appVars, envVars, vibeVars, mode, voiceVars, recognitionVars, speechVars>>

\* the analyze-selection button: analyzeSelectedSnippet(selectedCode,
\* fileName) up to its first await (it does not use getModel)
AnalyzeSelectedSnippet(snippet) ==
    /\ mode = "teacher" /\ ~isAnalyzing
    /\ IF \A k \in 1..Len(snippet) : IsBlank(snippet[k])
       THEN /\ explanation' = <<StatusLine(0, "Select some code in the editor")>>
            /\ lastEvent' = Event("AnalyzeSelectedSnippet", 0)
            /\ UNCHANGED <<analysisRunRef, runs, isAnalyzing, lastGeminiResponse>>
       ELSE /\ analysisRunRef < MaxRun
            /\ LET r == analysisRunRef + 1
                   units == extractPythonFunctions(snippet)
               IN  /\ analysisRunRef' = r
                   /\ explanation' = <<StatusLine(r, "Analyzing selected code")>>
                   /\ lastGeminiResponse' = <<>>
                   /\ lastEvent' = Event("AnalyzeSelectedSnippet", r)
                   /\ IF units # <<>>
                      THEN LoopHead(r, "selection", units, 0, r, TRUE)
                      ELSE /\ isAnalyzing' = TRUE
                           /\ runs' = [runs EXCEPT ![r] = [pc |-> "awaitPlain",
                                           kind |-> "selection", units |-> units, i |-> 0]]
    /\ UNCHANGED <<code, fileName, timer>>
    /\ UNCHANGED <<appVars, envVars, vibeVars, mode, voiceVars, recognitionVars, speechVars>>

\* a loop whose catch branch returns after writing the fallback entries
BatchResolve_AbortOnFailure(r) ==
    /\ runs[r].pc = "await"
    /\ LET units == runs[r].units
           i == runs[r].i
           batch == BatchOf(units, i)
       IN  \E outcome \in Outcomes(batch) :
               /\ lastGeminiResponse' =
                      IF outcome.kind = "transportError" THEN lastGeminiResponse
                      ELSE Append(lastGeminiResponse, [run |-> r, i |-> i])
               /\ explanation' = explanation \o BatchLines(r, batch, outcome)
               /\ IF outcome.kind = "parsed"
                  THEN LoopHead(r, runs[r].kind, units, i + batchSize, analysisRunRef,
                                isAnalyzing)
                  ELSE /\ runs' = [runs EXCEPT ![r].pc = "returned"]
                       /\ UNCHANGED isAnalyzing
    /\ lastEvent' = Event("BatchResolve", r)
    /\ UNCHANGED <<code, fileName, analysisRunRef, timer>>
    /\ UNCHANGED <<appVars, envVars, vibeVars, mode, voiceVars, recognitionVars, speechVars>>

\* the request of the batch of run r resolves with some outcome: the lines
\* of the batch are appended to the explanation, i advances and the loop
\* head runs again
BatchResolve(r) ==
    /\ runs[r].pc = "await"
    /\ LET units == runs[r].units
           i == runs[r].i
           batch == BatchOf(units, i)
       IN  \E outcome \in Outcomes(batch) :
               /\ lastGeminiResponse' =
                      IF outcome.kind = "transportError" THEN lastGeminiResponse
                      ELSE Append(lastGeminiResponse, [run |-> r, i |-> i])
               /\ explanation' = explanation \o BatchLines(r, batch, outcome)
               /\ LoopHead(r, runs[r].kind, units, i + batchSize, analysisRunRef, isAnalyzing)
    /\ lastEvent' = Event("BatchResolve", r)
    /\ UNCHANGED <<code, fileName, analysisRunRef, timer>>
    /\ UNCHANGED <<appVars, envVars, vibeVars, mode, voiceVars, recognitionVars, speechVars>>

\* the plain-text request of analyzeSelectedSnippet (a selection without
\* functions) resolves or fails
PlainResolve(r, ok) ==
    /\ runs[r].pc = "awaitPlain"
    /\ IF ok
       THEN /\ lastGeminiResponse' = <<[run |-> r, i |-> 0]>>
            /\ explanation' = <<StatusLine(r, "### Selected Code Insight")>>
       ELSE /\ explanation' = <<StatusLine(r, "Unable to analyze selected code.")>>
            /\ UNCHANGED lastGeminiResponse
    /\ isAnalyzing' = IF analysisRunRef = r THEN FALSE ELSE isAnalyzing
    /\ runs' = [runs EXCEPT ![r].pc = "done"]
    /\ lastEvent' = Event("PlainResolve", r)
    /\ UNCHANGED <<code, fileName, analysisRunRef, timer>>
    /\ UNCHANGED <<appVars, envVars, vibeVars, mode, voiceVars, recognitionVars, speechVars>>

\* the App component passes a new code or fileName prop (an edit reaching the
\* panel, or a file switch): the debounce effect runs again
PropsChange(c, f) ==
    /\ <<c, f>> \in PanelProps
    /\ <<c, f>> # <<code, fileName>>
    /\ code' = c
    /\ fileName' = f
    /\ DebounceEffect(mode, mode, c, f)
    /\ lastEvent' = Event("PropsChange", 0)
    /\ UNCHANGED <<runs, explanation, isAnalyzing, lastGeminiResponse>>
    /\ UNCHANGED <<appVars, envVars, vibeVars, mode, voiceVars, recognitionVars, speechVars>>

AnalysisInit ==
    /\ code = MainPy
    /\ fileName = "main.py"
    /\ analysisRunRef = 0
    /\ timer = {Timeout(MainPy, "main.py")}
    /\ runs = [r \in RunIds |-> NoRun]
    /\ explanation = <<>>
    /\ isAnalyzing = FALSE
    /\ lastGeminiResponse = <<>>

\* ------------------------------------------------------------------------
\* App: the contents of the files, the changed-line accumulator and the
\* snapshot given to the panel.  Here a text is a tuple of pieces, a piece
\* being the newline "\n" or a run of other characters (one character when
\* all texts are enumerated, a whole line otherwise).
\* ------------------------------------------------------------------------
Chars == {"a", "b", "\n"}
\* every text of at most MaxTextLen characters
Texts == UNION { [1..n -> Chars] : n \in 0..MaxTextLen }

\* s.split("\n")
RECURSIVE Split(_)
Split(s) ==
    IF \A k \in 1..Len(s) : s[k] # "\n" THEN <<s>>
    ELSE LET k == CHOOSE j \in 1..Len(s) :
                      s[j] = "\n" /\ \A h \in 1..(j - 1) : s[h] # "\n"
         IN  <<SubSeq(s, 1, k - 1)>> \o Split(SubSeq(s, k + 1, Len(s)))

\* lines.join("\n"), each line given as one run of characters
RECURSIVE JoinLines(_)
JoinLines(lines) ==
    IF Len(lines) = 0 THEN <<>>
    ELSE (IF lines[1] = "" THEN <<>> ELSE <<lines[1]>>)
         \o (IF Len(lines) > 1 THEN <<"\n">> \o JoinLines(Tail(lines)) ELSE <<>>)

Max(a, b) == IF a > b THEN a ELSE b

\* the first loop of countChangedLines: the number of matching leading lines
RECURSIVE MatchingPrefix(_, _, _)
MatchingPrefix(beforeLines, afterLines, start) ==
    IF start < Len(beforeLines) /\ start < Len(afterLines)
       /\ beforeLines[start + 1] = afterLines[start + 1]
    THEN MatchingPrefix(beforeLines, afterLines, start + 1)
    ELSE start

\* the second loop: <<beforeEnd, afterEnd>> (0-based) after the matching
\* trailing lines have been dropped
RECURSIVE DropMatchingSuffix(_, _, _, _, _)
DropMatchingSuffix(beforeLines, afterLines, start, beforeEnd, afterEnd) ==
    IF beforeEnd >= start /\ afterEnd >= start
       /\ beforeLines[beforeEnd + 1] = afterLines[afterEnd + 1]
    THEN DropMatchingSuffix(beforeLines, afterLines, start, beforeEnd - 1, afterEnd - 1)
    ELSE <<beforeEnd, afterEnd>>

\* a countChangedLines without the early return and with the suffix loop
\* allowed to run into the matched prefix
countChangedLines_Overlap(before, after) ==
    LET beforeLines == Split(before)
        afterLines == Split(after)
        start == MatchingPrefix(beforeLines, afterLines, 0)
        ends == DropMatchingSuffix(beforeLines, afterLines, 0,
                                   Len(beforeLines) - 1, Len(afterLines) - 1)
        removedLines == Max(0, ends[1] - start + 1)
        addedLines == Max(0, ends[2] - start + 1)
    IN  Max(removedLines, addedLines)

countChangedLines(before, after) ==
    IF before = after THEN 0
    ELSE LET beforeLines == Split(before)
             afterLines == Split(after)
             start == MatchingPrefix(beforeLines, afterLines, 0)
             ends == DropMatchingSuffix(beforeLines, afterLines, start,
                                        Len(beforeLines) - 1, Len(afterLines) - 1)
             removedLines == Max(0, ends[1] - start + 1)
             addedLines == Max(0, ends[2] - start + 1)
         IN  Max(removedLines, addedLines)

AI_REFRESH_LINE_THRESHOLD == 5

\* the lines of the initial main.py and utils.py
MainPyLines ==
    << "from utils import greet", "from data_service import get_items", "", "",
       "def main() -> None:", "    print(greet(\"World\"))",
       "    for item in get_items():", "        print(item)", "", "",
       "if __name__ == \"__main__\":", "    main()", "" >>
UtilsPyLines ==
    << "def greet(name: str) -> str:", "    return f\"Hello, {name}!\"", "" >>

initialFilesContent ==
    [f \in {"main.py", "utils.py"} |->
        IF f = "main.py" THEN JoinLines(MainPyLines) ELSE JoinLines(UtilsPyLines)]

\* main.py with one line changed, with three lines changed, and with five
\* lines added before its last line break
OneLineEdited == JoinLines([MainPyLines EXCEPT ![6] = "    print(greet(\"Ada\"))"])
ThreeLinesEdited ==
    JoinLines([MainPyLines EXCEPT ![6] = "    names = get_items()",
                                  ![7] = "    for name in names:",
                                  ![8] = "        print(greet(name))"])
FiveLinesAdded ==
    JoinLines(SubSeq(MainPyLines, 1, 12)
              \o <<"", "", "def extra() -> None:", "    pass", "", "">>)

\* the values the editor passes to handleCodeChange
Edits == { initialFilesContent["main.py"], OneLineEdited, ThreeLinesEdited,
           FiveLinesAdded }

NewFileContent == <<"// New file created">>

\* filesContent[f] || ""
Content(files, f) == IF f \in DOMAIN files THEN files[f] ELSE <<>>
\* pendingAiLineChangesRef.current[f] || 0
Pending(ref, f) == IF f \in DOMAIN ref THEN ref[f] ELSE 0
\* { ...prev, [k]: v }
Put(m, k, v) == [x \in (DOMAIN m) \cup {k} |-> IF x = k THEN v ELSE m[x]]

\* the panel's debounce effect after the App has rendered with a changed
\* aiPanelCode (the fileName prop unchanged)
SnapshotEffect(newSnapshot) ==
    IF newSnapshot # code
    THEN DebounceEffect(mode, mode, newSnapshot, fileName)
    ELSE UNCHANGED <<analysisRunRef, timer>>

\* a handleCodeChange that refreshes the snapshot without resetting the
\* accumulator
HandleCodeChange_NoReset(newCode) ==
    LET previousCode == Content(filesContent, fileName)
        changed == countChangedLines(previousCode, newCode)
        nextPending == Pending(pendingAiLineChangesRef, fileName) + changed
    IN  /\ changedLines' = changed
        /\ IF changed > 0
           THEN /\ code' = IF nextPending >= AI_REFRESH_LINE_THRESHOLD THEN newCode ELSE code
                /\ pendingAiLineChangesRef' =
                       Put(pendingAiLineChangesRef, fileName, nextPending)
           ELSE UNCHANGED <<code, pendingAiLineChangesRef>>
        /\ SnapshotEffect(code')
        /\ filesContent' = Put(filesContent, fileName, newCode)
        /\ lastEvent' = Event("HandleCodeChange", 0)
        /\ UNCHANGED <<fileName, previousAiFileRef>>
        /\ UNCHANGED <<runs, explanation, isAnalyzing, lastGeminiResponse>>
        /\ UNCHANGED <<envVars, vibeVars, mode, voiceVars, recognitionVars, speechVars>>

\* the editor's onChange
HandleCodeChange(newCode) ==
    LET previousCode == Content(filesContent, fileName)
        changed == countChangedLines(previousCode, newCode)
        nextPending == Pending(pendingAiLineChangesRef, fileName) + changed
    IN  /\ changedLines' = changed
        /\ IF changed > 0
           THEN IF nextPending >= AI_REFRESH_LINE_THRESHOLD
                THEN /\ code' = newCode
                     /\ pendingAiLineChangesRef' = Put(pendingAiLineChangesRef, fileName, 0)
                ELSE /\ code' = code
                     /\ pendingAiLineChangesRef' =
                            Put(pendingAiLineChangesRef, fileName, nextPending)
           ELSE UNCHANGED <<code, pendingAiLineChangesRef>>
        /\ SnapshotEffect(code')
        /\ filesContent' = Put(filesContent, fileName, newCode)
        /\ lastEvent' = Event("HandleCodeChange", 0)
        /\ UNCHANGED <<fileName, previousAiFileRef>>
        /\ UNCHANGED <<runs, explanation, isAnalyzing, lastGeminiResponse>>
        /\ UNCHANGED <<envVars, vibeVars, mode, voiceVars, recognitionVars, speechVars>>

\* the App renders with currentFile = f and the contents `files`: the
\* panel's debounce effect runs for the new fileName prop (child effects
\* first), then the file-switch effect of the App, which when the file name
\* differs from previousAiFileRef re-seeds aiPanelCode (so that the panel's
\* effect runs once more if the snapshot changed) and resets the accumulator
SwitchTo(f, files) ==
    LET switched == previousAiFileRef # f
        snapshot == IF switched THEN Content(files, f) ELSE code
        nameChanged == f # fileName
        codeChanged == snapshot # code
        cleanups == IF mode \in AnalyzableModes
                    THEN (IF nameChanged THEN 1 ELSE 0) + (IF codeChanged THEN 1 ELSE 0)
                    ELSE 0
    IN  /\ fileName' = f
        /\ filesContent' = files
        /\ code' = snapshot
        /\ pendingAiLineChangesRef' =
               IF switched THEN Put(pendingAiLineChangesRef, f, 0)
               ELSE pendingAiLineChangesRef
        /\ previousAiFileRef' = f
        /\ analysisRunRef' = analysisRunRef + cleanups
        /\ analysisRunRef' <= MaxRun
        /\ timer' = IF nameChanged \/ codeChanged
                    THEN (IF mode \in AnalyzableModes THEN {Timeout(snapshot, f)} ELSE {})
                    ELSE timer
        /\ UNCHANGED changedLines
        /\ UNCHANGED <<runs, explanation, isAnalyzing, lastGeminiResponse>>
        /\ UNCHANGED <<envVars, vibeVars, mode, voiceVars, recognitionVars, speechVars>>

\* a file is chosen in the sidebar: onFileSelect={setCurrentFile}
SelectFile(f) ==
    /\ f \in DOMAIN filesContent
    /\ f # fileName
    /\ SwitchTo(f, filesContent)
    /\ lastEvent' = Event("SelectFile", 0)

\* handleCreateNode("file", parent, name)
CreateFile(name) ==
    /\ SwitchTo(name, Put(filesContent, name, NewFileContent))
    /\ lastEvent' = Event("CreateFile", 0)

\* menu action open_file with payload {name, content}
OpenFile(name, content) ==
    /\ SwitchTo(name, Put(filesContent, name, content))
    /\ lastEvent' = Event("OpenFile", 0)

\* menu action open_folder with payload.fileContents = files, firstFile
\* being the first file of the folder's tree
OpenFolder(files, firstFile) ==
    /\ SwitchTo(firstFile, files)
    /\ lastEvent' = Event("OpenFolder", 0)

\* names given to new files, and folders opened: a project whose first
\* file is also called main.py
NewFileNames == {"notes.txt"}
Folders ==
    { [files |-> [f \in {"main.py"} |-> OneLineEdited], firstFile |-> "main.py"] }

\* the App state after construction
AppStateInit ==
    /\ filesContent = initialFilesContent
    /\ pendingAiLineChangesRef = <<>>
    /\ previousAiFileRef = "main.py"
    /\ changedLines = 0

\* ------------------------------------------------------------------------
\* Vibe edits: runVibeTask of AIPanel and handleApplyAIChangeToActiveFile
\* of the App.  The call captures the props fileName, code and
\* onApplyActiveFileChange of the render in which the button was clicked.
\* ------------------------------------------------------------------------
\* an Error, kept as its message and what the catch block asks of it:
\* whether the message includes "VITE_OPENAI_API_KEY"
Error(message, includesKey) == [message |-> message, includesKey |-> includesKey]
NoError == Error("", FALSE)

NoVibeTask == [pc |-> "none", fileName |-> "", code |-> <<>>, error |-> NoError]

VibeIdle ==
    /\ statusMessage = "Ready"
    /\ statusCalls = <<>>
    /\ vibeTask = NoVibeTask

\* the errors thrown inside the try block.  The message of the
\* SyntaxError of JSON.parse is chosen by the engine, which may quote in it
\* the text it could not parse.
MissingKeyError == Error("Missing VITE_OPENAI_API_KEY in environment.", TRUE)
RequestFailedError == Error("OpenAI request failed with status", FALSE)
EmptyResponseError == Error("OpenAI returned an empty response.", FALSE)
FetchError == Error("Failed to fetch", FALSE)
SyntaxError(quoted) == Error("JSON.parse", quoted)
TypeError == Error("Cannot read properties of null", FALSE)

\* a value of the parsed response: a string, or a missing key
VString(c) == [typeof |-> "string", content |-> c]
VMissing == [typeof |-> "undefined", content |-> <<>>]

\* the content the agent returns
AgentContent == <<"x = 1">>

\* choices[0].message.content: absent, blank, text that is not JSON (one
\* such text being the name VITE_OPENAI_API_KEY), the JSON null, or a JSON
\* object with or without its keys
NoRaw == [typeof |-> "undefined", blank |-> TRUE, json |-> "none", namesKey |-> FALSE,
          updatedContent |-> VMissing, summary |-> VMissing]
BlankRaw == [NoRaw EXCEPT !.typeof = "string"]
ProseRaw == [BlankRaw EXCEPT !.blank = FALSE]
KeyNameRaw == [ProseRaw EXCEPT !.namesKey = TRUE]
NullRaw == [ProseRaw EXCEPT !.json = "null"]
ObjectRaw(u, m) == [ProseRaw EXCEPT !.json = "object", !.updatedContent = u, !.summary = m]
Raws ==
    {NoRaw, BlankRaw, ProseRaw, KeyNameRaw, NullRaw}
    \cup { ObjectRaw(u, m) : u \in {VMissing, VString(<<>>), VString(AgentContent)},
                             m \in {VMissing, VString(<<"summary">>)} }

\* what fetch resolves to: it throws, or a response that is ok or not
VibeReplies ==
    { [threw |-> TRUE, ok |-> FALSE, raw |-> NoRaw],
      [threw |-> FALSE, ok |-> FALSE, raw |-> NoRaw] }
    \cup { [threw |-> FALSE, ok |-> TRUE, raw |-> w] : w \in Raws }

\* the error the try block throws on a reply, NoError if it throws none, in
\* an engine whose SyntaxError message quotes the text or does not
ThrownOn(reply, quotes) ==
    IF reply.threw THEN FetchError
    ELSE IF ~reply.ok THEN RequestFailedError
    ELSE IF reply.raw.typeof # "string" \/ reply.raw.blank THEN EmptyResponseError
    ELSE IF reply.raw.json = "none" THEN SyntaxError(quotes /\ reply.raw.namesKey)
    ELSE IF reply.raw.json = "null" THEN TypeError
    ELSE NoError

\* the catch block: error.message.includes("VITE_OPENAI_API_KEY")
CatchMessage(error) ==
    IF error.includesKey
    THEN "Set VITE_OPENAI_API_KEY to use Vibe Coder."
    ELSE "Failed to apply edits. Try refining the prompt."

\* the prompts typed into the task box
VibePrompts == {"", "set x to 1"}

\* the Run button of the vibe mode: runVibeTask() up to its first await.
\* Without the key the throw, the catch block and the finally block run in
\* the same call.
RunVibeTask(taskPrompt) ==
    /\ mode = "vibe" /\ ~isAnalyzing
    /\ lastEvent' = Event("RunVibeTask", 0)
    /\ IF fileName = "" \/ code = <<>>
       THEN /\ statusMessage' = "No active file content available."
            /\ statusCalls' = <<statusMessage'>>
            /\ vibeTask' = [NoVibeTask EXCEPT !.pc = "returned"]
            /\ UNCHANGED isAnalyzing
       ELSE IF taskPrompt = ""
       THEN /\ statusMessage' = "Enter a task prompt first."
            /\ statusCalls' = <<statusMessage'>>
            /\ vibeTask' = [NoVibeTask EXCEPT !.pc = "returned"]
            /\ UNCHANGED isAnalyzing
       ELSE IF ~openAiKey
       THEN /\ statusMessage' = CatchMessage(MissingKeyError)
            /\ statusCalls' = <<"Generating edits...", statusMessage'>>
            /\ vibeTask' = [pc |-> "failed", fileName |-> fileName, code |-> code,
                            error |-> MissingKeyError]
            /\ isAnalyzing' = FALSE
       ELSE /\ statusMessage' = "Generating edits..."
            /\ statusCalls' = <<statusMessage'>>
            /\ vibeTask' = [pc |-> "await", fileName |-> fileName, code |-> code,
                            error |-> NoError]
            /\ isAnalyzing' = TRUE
    /\ UNCHANGED <<code, fileName, analysisRunRef, timer, runs, explanation,
                   lastGeminiResponse>>
    /\ UNCHANGED <<appVars, envVars, mode, voiceVars, recognitionVars, speechVars>>

\* handleApplyAIChangeToActiveFile(newCode) of the render whose currentFile
\* was f, followed by the panel's debounce effect for the new code prop
HandleApplyAIChangeToActiveFile(f, newCode) ==
    /\ code' = newCode
    /\ pendingAiLineChangesRef' = Put(pendingAiLineChangesRef, f, 0)
    /\ filesContent' = IF f = "" \/ f \notin DOMAIN filesContent
                       THEN filesContent
                       ELSE Put(filesContent, f, newCode)
    /\ SnapshotEffect(newCode)
    /\ UNCHANGED <<fileName, previousAiFileRef, changedLines>>

\* the fetch of the outstanding runVibeTask call settles: the rest of the
\* try block, the catch block and the finally block
VibeResolve(reply, quotes) ==
    /\ vibeTask.pc = "await"
    /\ lastEvent' = Event("VibeResolve", 0)
    /\ LET error == ThrownOn(reply, quotes)
           parsed == reply.raw
       IN  IF error # NoError
           THEN /\ statusMessage' = CatchMessage(error)
                /\ vibeTask' = [vibeTask EXCEPT !.pc = "failed", !.error = error]
                /\ UNCHANGED <<code, fileName, analysisRunRef, timer, appVars>>
           ELSE IF parsed.updatedContent.typeof # "string"
                   \/ parsed.updatedContent.content = <<>>
           THEN /\ statusMessage' = "Agent returned no applicable edit."
                /\ vibeTask' = [vibeTask EXCEPT !.pc = "noEdit"]
                /\ UNCHANGED <<code, fileName, analysisRunRef, timer, appVars>>
           ELSE /\ HandleApplyAIChangeToActiveFile(vibeTask.fileName,
                                                   parsed.updatedContent.content)
                /\ statusMessage' =
                       IF parsed.summary.typeof = "string" /\ parsed.summary.content # <<>>
                       THEN "summary (updated " \o vibeTask.fileName \o ")"
                       ELSE "Applied update to " \o vibeTask.fileName \o "."
                /\ vibeTask' = [vibeTask EXCEPT !.pc = "applied"]
    /\ statusCalls' = Append(statusCalls, statusMessage')
    /\ isAnalyzing' = FALSE
    /\ UNCHANGED <<runs, explanation, lastGeminiResponse>>
    /\ UNCHANGED <<envVars, mode, voiceVars, recognitionVars, speechVars>>

\* ------------------------------------------------------------------------
\* Specifications
\* ------------------------------------------------------------------------
Init ==
    /\ geminiKey \in BOOLEAN
    /\ elevenLabsKey \in BOOLEAN
    /\ openAiKey = TRUE
    /\ mode = "teacher"
    /\ VoiceInit
    /\ VibeIdle
    /\ AnalysisInit
    /\ AppStateInit
    /\ lastEvent = Event("Init", 0)

\* the analysis run controller
Next ==
    \/ \E m \in Modes : SetMode(m)
    \/ \E p \in PanelProps : PropsChange(p[1], p[2])
    \/ TimerFire
    \/ \E s \in Selections : AnalyzeSelectedSnippet(s)
    \/ \E r \in RunIds : BatchResolve(r)
    \/ \E r \in RunIds : \E ok \in BOOLEAN : PlainResolve(r, ok)

Spec == Init /\ [][Next]_vars

\* The voice session: the panel after the user has selected the voice mode
\* (Init followed by SetMode("voice")).  The voice state is read and written
\* by the voice handlers only; while another mode is selected the voice
\* controls are not rendered and the same asynchronous events arrive, so the
\* mode stays "voice" here and the mode selector is an action of Spec.
VoiceModeInit ==
    /\ geminiKey \in BOOLEAN
    /\ elevenLabsKey \in BOOLEAN
    /\ openAiKey = TRUE
    /\ mode = "voice"
    /\ VoiceInit
    /\ VibeIdle
    /\ code = MainPy
    /\ fileName = "main.py"
    /\ analysisRunRef = 1
    /\ timer = {}
    /\ runs = [r \in RunIds |-> NoRun]
    /\ explanation = <<>>
    /\ isAnalyzing = FALSE
    /\ lastGeminiResponse = <<>>
    /\ AppStateInit
    /\ lastEvent = Event("SetMode", 0)

VoiceNext ==
    \/ StartRubberDuckySession
    \/ Done
    \/ StartCapture
    \/ StopCapture
    \/ \E u \in Utterances : OnResult(u)
    \/ OnEnd
    \/ OnError
    \/ \E t \in TurnIds : \E e \in BOOLEAN : ModelReply(t, e)
    \/ \E t \in TurnIds : ModelFail(t)
    \/ \E t \in TurnIds : PlaybackEnd(t)
    \/ \E t \in TurnIds : PlaybackFail(t)

VoiceSpec == VoiceModeInit /\ [][VoiceNext]_vars

\* The App with the panel's debounce effect: the panel state as after
\* construction, with the snapshot of the initial main.py as its code prop.
\* The API keys are not read by any of these handlers, and the panel stays
\* in its initial mode (the mode selector is an action of Spec).
AppInitWith(files) ==
    /\ geminiKey = TRUE
    /\ elevenLabsKey = TRUE
    /\ openAiKey = TRUE
    /\ mode = "teacher"
    /\ VoiceInit
    /\ VibeIdle
    /\ code = files["main.py"]
    /\ fileName = "main.py"
    /\ analysisRunRef = 0
    /\ timer = {Timeout(files["main.py"], "main.py")}
    /\ runs = [r \in RunIds |-> NoRun]
    /\ explanation = <<>>
    /\ isAnalyzing = FALSE
    /\ lastGeminiResponse = <<>>
    /\ filesContent = files
    /\ pendingAiLineChangesRef = <<>>
    /\ previousAiFileRef = "main.py"
    /\ changedLines = 0
    /\ lastEvent = Event("Init", 0)

AppInit == AppInitWith(initialFilesContent)

SelectableFiles == {"main.py", "utils.py", "notes.txt"}
OpenedFiles ==
    { [name |-> "main.py", content |-> ThreeLinesEdited],
      [name |-> "utils.py", content |-> initialFilesContent["utils.py"]] }

AppNext ==
    \/ \E e \in Edits : HandleCodeChange(e)
    \/ \E f \in SelectableFiles : SelectFile(f)
    \/ \E n \in NewFileNames : CreateFile(n)
    \/ \E o \in OpenedFiles : OpenFile(o.name, o.content)
    \/ \E d \in Folders : OpenFolder(d.files, d.firstFile)

AppSpec == AppInit /\ [][AppNext]_vars

\* countChangedLines on every pair of texts of at most MaxTextLen
\* characters: the App holding any such text as main.py, and its first
\* handleCodeChange with any such text.
CountInit == \E x \in Texts : AppInitWith([f \in {"main.py"} |-> x])

CountNext == \E y \in Texts : lastEvent = Event("Init", 0) /\ HandleCodeChange(y)

CountSpec == CountInit /\ [][CountNext]_vars

\* extractPythonFunctions and the batch loop on every text of at most
\* MaxLines lines, each line a def, a decorator or other code at
\* indentation 0 or 4 or a blank line, and on the files of up to MaxUnits
\* one-line functions: the panel mounted with such a text as its code prop
\* and the Gemini key set, its timer expiring and the batch requests
\* resolving.
LineKinds ==
    { DefLine(0, "f"), DefLine(4, "g"), DecoratorLine(0), DecoratorLine(4),
      CodeLine(0), CodeLine(4), BlankLine }
LineTexts == UNION { [1..n -> LineKinds] : n \in 0..MaxLines }
FunctionFiles == { [k \in 1..n |-> DefLine(0, ToString(k))] : n \in 0..MaxUnits }

ExtractInit ==
    \E x \in LineTexts \cup FunctionFiles :
        /\ geminiKey = TRUE
        /\ elevenLabsKey = TRUE
        /\ openAiKey = TRUE
        /\ mode = "teacher"
        /\ VoiceInit
        /\ VibeIdle
        /\ code = x
        /\ fileName = "main.py"
        /\ analysisRunRef = 0
        /\ timer = {Timeout(x, "main.py")}
        /\ runs = [r \in RunIds |-> NoRun]
        /\ explanation = <<>>
        /\ isAnalyzing = FALSE
        /\ lastGeminiResponse = <<>>
        /\ AppStateInit
        /\ lastEvent = Event("Init", 0)

ExtractNext ==
    \/ TimerFire
    \/ \E r \in RunIds : BatchResolve(r)

ExtractSpec == ExtractInit /\ [][ExtractNext]_vars

\* Vibe edits: the App and the panel after the user has selected the vibe
\* mode (AppInit followed by SetMode("vibe")), with or without the OpenAI
\* key; the user edits, switches files, opens a folder and runs tasks.
VibeInit ==
    /\ geminiKey = TRUE
    /\ elevenLabsKey = TRUE
    /\ openAiKey \in BOOLEAN
    /\ mode = "vibe"
    /\ VoiceInit
    /\ VibeIdle
    /\ code = initialFilesContent["main.py"]
    /\ fileName = "main.py"
    /\ analysisRunRef = 1
    /\ timer = {}
    /\ runs = [r \in RunIds |-> NoRun]
    /\ explanation = <<>>
    /\ isAnalyzing = FALSE
    /\ lastGeminiResponse = <<>>
    /\ AppStateInit
    /\ lastEvent = Event("SetMode", 0)

\* the edits typed while a task may be running, and the files selected
VibeEdits == {OneLineEdited, ThreeLinesEdited}
VibeFiles == {"main.py", "utils.py"}

VibeNext ==
    \/ \E p \in VibePrompts : RunVibeTask(p)
    \/ \E reply \in VibeReplies : \E quotes \in BOOLEAN : VibeResolve(reply, quotes)
    \/ \E e \in VibeEdits : HandleCodeChange(e)
    \/ \E f \in VibeFiles : SelectFile(f)
    \/ \E d \in Folders : OpenFolder(d.files, d.firstFile)

VibeSpec == VibeInit /\ [][VibeNext]_vars

\* The panel with both its analysis runs and its vibe tasks: the user goes
\* from one mode to another while a request is outstanding.  The replies to
\* the vibe task are the ones that apply no edit.
FailedReplies == { reply \in VibeReplies : ThrownOn(reply, FALSE) # NoError }

PanelInit ==
    /\ geminiKey = TRUE
    /\ elevenLabsKey = TRUE
    /\ openAiKey \in BOOLEAN
    /\ mode = "teacher"
    /\ VoiceInit
    /\ VibeIdle
    /\ AnalysisInit
    /\ AppStateInit
    /\ lastEvent = Event("Init", 0)

PanelNext ==
    \/ \E m \in Modes : SetMode(m)
    \/ TimerFire
    \/ \E r \in RunIds : BatchResolve(r)
    \/ \E p \in VibePrompts : RunVibeTask(p)
    \/ \E reply \in FailedReplies : VibeResolve(reply, FALSE)

PanelSpec == PanelInit /\ [][PanelNext]_vars

\* The same with what the environment guarantees: an armed timer that is
\* not cleared expires, and every outstanding request settles.  What the
\* user does is not required to happen.
PanelLiveSpec ==
    /\ PanelSpec
    /\ WF_vars(TimerFire)
    /\ \A r \in RunIds : WF_vars(BatchResolve(r))
    /\ WF_vars(\E reply \in FailedReplies : VibeResolve(reply, FALSE))

\* ------------------------------------------------------------------------
\* Analysis runs: properties
\* ------------------------------------------------------------------------
\* run r has been superseded while a batch request of it is outstanding
StaleAwaiting(r) == runs[r].pc = "await" /\ analysisRunRef # r

\* C1 (as claimed): when the outstanding request of a superseded run
\* resolves, nothing of it reaches the explanation: the step leaves the
\* explanation as it was.
C1_StaleResultDiscarded ==
    [][\A r \in RunIds :
          (StaleAwaiting(r) /\ runs'[r].pc # runs[r].pc) => explanation' = explanation]_vars

\* the entry lines of the explanation, in order
EntryLines == SelectSeq(explanation, LAMBDA l : l.line = "entry")

\* C2 (as claimed): when the last batch of a run has just resolved and the
\* run is still the latest run, the explanation holds exactly one entry per
\* unit, in extraction order, each the model's explanation or the fallback.
C2_OneEntryPerUnit ==
    \A r \in RunIds :
        (lastEvent = Event("BatchResolve", r) /\ runs[r].pc = "done" /\ analysisRunRef = r) =>
            /\ Len(EntryLines) = Len(runs[r].units)
            /\ \A k \in 1..Len(EntryLines) :
                  /\ EntryLines[k].functionName = runs[r].units[k].functionName
                  /\ EntryLines[k].text \in {"explanation", Fallback}

\* the step starts run r (analyzeCode from the debounce timer, or
\* analyzeSelectedSnippet with a selection that is not blank)
StartsRun(r) ==
    /\ lastEvent' # lastEvent
    /\ lastEvent' \in {Event("TimerFire", r), Event("AnalyzeSelectedSnippet", r)}

\* run r has been started
Started(r) == runs[r].pc # "none"

\* C11: the run id never decreases, and a step that starts a run gives it an
\* id greater than the latest id so far and than the id of every run
\* started before, and makes it the latest id.
C11_RunIdsIncrease ==
    [][/\ analysisRunRef' >= analysisRunRef
       /\ \A r \in RunIds :
             StartsRun(r) =>
                 /\ analysisRunRef' = r
                 /\ r > analysisRunRef
                 /\ \A q \in RunIds : Started(q) => q < r]_vars

\* a run has just been started while an earlier run exists
C11_Witness ==
    /\ lastEvent.op \in {"TimerFire", "AnalyzeSelectedSnippet"}
    /\ lastEvent.id = analysisRunRef
    /\ \E q \in RunIds : q < analysisRunRef /\ Started(q)

\* the step issues a batch request of run r
IssuesBatchRequest(r) ==
    /\ runs'[r].pc = "await"
    /\ runs[r].pc # "await" \/ runs'[r].i # runs[r].i

\* C12: a run issues the request of its first batch when it starts, and the
\* request of each later batch in the step in which the request of the batch
\* before it resolves; a run never has two requests outstanding.
C12_BatchesInSequence ==
    [][\A r \in RunIds :
          IssuesBatchRequest(r) =>
              \/ ~Started(r) /\ runs'[r].i = 0
              \/ runs[r].pc = "await" /\ runs'[r].i = runs[r].i + batchSize]_vars

\* the request of the second batch of a run is outstanding
C12_Witness ==
    \E r \in RunIds : runs[r].pc = "await" /\ runs[r].i = batchSize

\* C13: a batch request is issued only by the run whose id is the latest
\* run id; when the outstanding request of a superseded run resolves, that
\* run issues no further request.
C13_SupersededRunStops ==
    [][\A r \in RunIds :
          /\ IssuesBatchRequest(r) => analysisRunRef' = r
          /\ (StaleAwaiting(r) /\ runs'[r] # runs[r]) =>
                 runs'[r].pc \in {"returned", "done"}]_vars

\* a superseded run with batches left has returned at the head of its loop
C13_Witness ==
    \E r \in RunIds :
        /\ runs[r].pc = "returned"
        /\ runs[r].i < Len(runs[r].units)
        /\ analysisRunRef # r

\* the last request of run r is outstanding
AwaitsLast(r) ==
    \/ runs[r].pc = "awaitPlain"
    \/ runs[r].pc = "await" /\ runs[r].i + batchSize >= Len(runs[r].units)

\* C14: when the last request of a run resolves, isAnalyzing is cleared if
\* the run is still the latest run and is left as it was otherwise; and
\* isAnalyzing is cleared only by a step of the latest run.
C14_LatestRunClearsBusy ==
    [][/\ \A r \in RunIds :
             (AwaitsLast(r) /\ runs'[r].pc = "done") =>
                 isAnalyzing' = (IF analysisRunRef = r THEN FALSE ELSE isAnalyzing)
       /\ (isAnalyzing /\ ~isAnalyzing') =>
             (lastEvent'.id = analysisRunRef' /\ lastEvent'.id \in RunIds)]_vars

\* the latest run has resolved its last batch and isAnalyzing is cleared
C14_Witness ==
    \E r \in RunIds :
        /\ lastEvent = Event("BatchResolve", r)
        /\ runs[r].pc = "done"
        /\ analysisRunRef = r
        /\ ~isAnalyzing

\* C15 (as claimed): a run whose extraction returned no unit issues no model
\* request: it is never waiting for a response.
C15_ZeroUnitsNoRequest ==
    \A r \in RunIds :
        (Started(r) /\ runs[r].units = <<>>) =>
            /\ runs[r].pc \notin {"await", "awaitPlain"}
            /\ lastEvent \in {Event("TimerFire", r), Event("AnalyzeSelectedSnippet", r)}
                   => ~isAnalyzing

\* C29 (as claimed): a file analysis that extracted units does not end in
\* an error nobody handles: no call of analyzeCode is left rejected with the
\* panel still showing the run in progress.
C29_MissingKeyReported ==
    \A r \in RunIds :
        (runs[r].pc = "rejected" /\ analysisRunRef = r) =>
            /\ ~isAnalyzing
            /\ explanation # <<StatusLine(r, "Analyzing function(s) in batch(es)")>>

\* C16 (as claimed): at most one timeout is pending, and every change of
\* code, fileName or mode leaves exactly one timeout pending, armed with the
\* new props.
C16_EveryChangeRearms ==
    /\ [](Cardinality(timer) <= 1)
    /\ [][(code' # code \/ fileName' # fileName \/ mode' # mode) =>
              timer' = {Timeout(code', fileName')}]_vars

\* C16 (amended): at most one timeout is pending, and it captured the
\* current props; every change of code, fileName or mode cancels the pending
\* timeout, and arms a new one with the new props if the new mode is teacher
\* or reviewer (none in vibe or voice mode); a run started by the timeout
\* analyzes the code present when it expires.
C16_Debounce ==
    /\ [](/\ timer \subseteq {Timeout(code, fileName)}
          /\ timer # {} => mode \in AnalyzableModes)
    /\ [][/\ (code' # code \/ fileName' # fileName \/ mode' # mode) =>
                 /\ timer' = IF mode' \in AnalyzableModes
                             THEN {Timeout(code', fileName')} ELSE {}
                 /\ mode \in AnalyzableModes => analysisRunRef' = analysisRunRef + 1
          /\ \A r \in RunIds :
                 (lastEvent' # lastEvent /\ lastEvent' = Event("TimerFire", r)) =>
                     /\ timer # {}
                     /\ runs'[r].units = extractPythonFunctions(code)]_vars

\* a change of the props has replaced the timeout armed for the initial props
C16_Witness ==
    /\ lastEvent = Event("PropsChange", 0)
    /\ code # MainPy
    /\ timer = {Timeout(code, fileName)}

\* the names of the units or entry lines of a sequence, in order
NamesOf(seq) == [k \in 1..Len(seq) |-> seq[k].functionName]

\* C24: the units of a run are the slices of the text over the line ranges
\* of the scan (decorator lines included); each range holds its def line,
\* the ranges are pairwise disjoint and in increasing order of position, and
\* every line of the text that matches the def pattern lies in some range.
C24_UnitsDisjointOrderedCovering ==
    \A r \in RunIds :
        (runs[r].pc # "none" /\ runs[r].kind = "file") =>
            LET units == runs[r].units
                ranges == ExtractRanges(code, 1)
            IN  /\ Len(units) = Len(ranges)
                /\ \A k \in 1..Len(ranges) :
                       /\ units[k].source = SubSeq(code, ranges[k].start, ranges[k].end - 1)
                       /\ units[k].functionName = code[ranges[k].def].name
                       /\ 1 <= ranges[k].start
                       /\ ranges[k].start <= ranges[k].def
                       /\ ranges[k].def < ranges[k].end
                       /\ ranges[k].end <= Len(code) + 1
                /\ \A k \in 1..(Len(ranges) - 1) : ranges[k].end <= ranges[k + 1].start
                /\ \A j \in 1..Len(code) :
                       code[j].kind = "def" =>
                           \E k \in 1..Len(ranges) :
                               ranges[k].start <= j /\ j < ranges[k].end

\* a run on a text of two units, the second of which begins with a
\* decorator line
C24_Witness ==
    \E r \in RunIds :
        /\ runs[r].pc # "none"
        /\ Len(runs[r].units) = 2
        /\ runs[r].units[2].source[1].kind = "decorator"

\* line j of the text closes a unit whose def line has indentation d
Closes(j, d) == ~IsBlank(code[j]) /\ code[j].indent <= d

\* C32: the unit opened by a def line of indentation d spans the lines
\* after it up to the first line that is not blank and is indented at most
\* d, or up to the end of the text; the def line of the next unit is the
\* first def line at or after that end, so that a def line inside a unit is
\* not the def line of a unit.
C32_UnitEndsAtDedent ==
    \A r \in RunIds :
        (runs[r].pc # "none" /\ runs[r].kind = "file") =>
            LET ranges == ExtractRanges(code, 1)
                n == Len(ranges)
                FirstDefFrom(i) ==
                    IF \E j \in i..Len(code) : code[j].kind = "def"
                    THEN CHOOSE j \in i..Len(code) :
                             /\ code[j].kind = "def"
                             /\ \A h \in i..(j - 1) : code[h].kind # "def"
                    ELSE 0
            IN  /\ Len(runs[r].units) = n
                /\ \A k \in 1..n :
                       LET d == code[ranges[k].def].indent
                           end == ranges[k].end
                       IN  /\ \A j \in (ranges[k].def + 1)..(end - 1) : ~Closes(j, d)
                           /\ end = Len(code) + 1 \/ Closes(end, d)
                           /\ runs[r].units[k].source[Len(runs[r].units[k].source)]
                                  = code[end - 1]
                           /\ ranges[k].def = FirstDefFrom(IF k = 1 THEN 1
                                                           ELSE ranges[k - 1].end)
                /\ FirstDefFrom(IF n = 0 THEN 1 ELSE ranges[n].end) = 0

\* the only unit of a run holds a blank line and, after it, a nested def
\* line
C32_Witness ==
    \E r \in RunIds :
        /\ runs[r].pc # "none"
        /\ Len(runs[r].units) = 1
        /\ Len(runs[r].units[1].source) = 3
        /\ IsBlank(runs[r].units[1].source[2])
        /\ runs[r].units[1].source[3].kind = "def"
        /\ Len(code) = 4

\* C25: the source of every unit of a run begins and ends with a line that
\* is not blank, and begins without indentation.
C25_SourceTrimmed ==
    \A r \in RunIds :
        \A k \in 1..Len(runs[r].units) :
            LET source == runs[r].units[k].source
            IN  /\ ~IsBlank(source[1])
                /\ source[1].indent = 0
                /\ ~IsBlank(source[Len(source)])

\* C26: the batch of an outstanding request holds between 1 and 5 units,
\* fewer than 5 only when it is the last one, and is the slice of the unit
\* list that follows the units of the batches before it, whose entries are
\* the ones written so far; a finished run has written one entry per unit,
\* in the order of the unit list; the only batch of two units holds both.
C26_BatchesPartitionUnits ==
    \A r \in RunIds :
        LET units == runs[r].units
            i == runs[r].i
            batch == BatchOf(units, i)
        IN  /\ runs[r].pc = "await" =>
                   /\ Len(batch) >= 1 /\ Len(batch) <= batchSize
                   /\ Len(batch) < batchSize => i + Len(batch) = Len(units)
                   /\ batch = SubSeq(units, i + 1, i + Len(batch))
                   /\ NamesOf(EntryLines) = NamesOf(SubSeq(units, 1, i))
                   /\ Len(units) = 2 => (i = 0 /\ batch = units)
            /\ (runs[r].pc = "done" /\ runs[r].kind = "file") =>
                   NamesOf(EntryLines) = NamesOf(units)

\* a run on two units has finished after one batch, with two entries
C26_Witness ==
    \E r \in RunIds :
        /\ runs[r].pc = "done"
        /\ Len(runs[r].units) = 2
        /\ runs[r].i = batchSize
        /\ Len(EntryLines) = 2

\* a response text that is not JSON, or one of whose items lacks a string
\* functionName or a string explanation
Malformed(text) ==
    \/ ~text.json
    \/ \E k \in 1..Len(text.items) :
           \/ text.items[k].functionName.typeof # "string"
           \/ text.items[k].explanation.typeof # "string"

\* the step in which the outstanding batch request of run r resolves
ResolvesBatch(r) == runs[r].pc = "await" /\ lastEvent' = Event("BatchResolve", r)

\* C27: when a batch request resolves, the lines appended to the explanation
\* are the lines of one of the outcomes of the batch, and for every response
\* text that is malformed these lines are one entry per unit of the batch,
\* each with the fallback explanation.
C27_MalformedFailsClosed ==
    [][\A r \in RunIds :
          ResolvesBatch(r) =>
              LET batch == BatchOf(runs[r].units, runs[r].i)
              IN  /\ \E outcome \in Outcomes(batch) :
                         explanation' = explanation \o BatchLines(r, batch, outcome)
                  /\ \A text \in Responses(batch) :
                         Malformed(text) =>
                             /\ OutcomeOf(text) \in Outcomes(batch)
                             /\ BatchLines(r, batch, OutcomeOf(text)) =
                                    [k \in 1..Len(batch) |->
                                        EntryLine(r, batch[k].functionName, Fallback)]]_vars

\* a response to a batch of five units has been received and its five
\* entries are fallback entries
C27_Witness ==
    \E r \in RunIds :
        /\ lastEvent = Event("BatchResolve", r)
        /\ Len(lastGeminiResponse) = 1
        /\ lastGeminiResponse[1] = [run |-> r, i |-> 0]
        /\ Len(EntryLines) = batchSize
        /\ \A k \in 1..batchSize : EntryLines[k].text = Fallback

\* C28: when a batch request of the latest run resolves and units remain,
\* the request of the next batch is issued in the same step, whatever the
\* outcome (a transport error leaves lastGeminiResponse as it was), and the
\* entries of the resolved batch are appended to the explanation.
C28_FailedBatchDoesNotAbort ==
    [][\A r \in RunIds :
          ResolvesBatch(r) =>
              /\ Len(explanation') = Len(explanation) + Len(BatchOf(runs[r].units, runs[r].i))
              /\ SubSeq(explanation', 1, Len(explanation)) = explanation
              /\ (analysisRunRef = r /\ runs[r].i + batchSize < Len(runs[r].units)) =>
                     /\ runs'[r].pc = "await"
                     /\ runs'[r].i = runs[r].i + batchSize]_vars

\* the first batch of the latest run failed with a transport error, the
\* second batch was requested and answered, and its entry follows the five
\* fallback entries of the first
C28_Witness ==
    \E r \in RunIds :
        /\ analysisRunRef = r
        /\ runs[r].pc = "done"
        /\ lastGeminiResponse = <<[run |-> r, i |-> batchSize]>>
        /\ Len(EntryLines) = batchSize + 1
        /\ \A k \in 1..batchSize : EntryLines[k].text = Fallback
        /\ EntryLines[batchSize + 1].text = "explanation"
        /\ \A k \in 1..(batchSize + 1) : EntryLines[k].run = r

\* ------------------------------------------------------------------------
\* Voice session: properties
\* ------------------------------------------------------------------------
AwaitingModel(t) == turns[t].pc = "awaitModel"
Playing(t) == turns[t].pc = "awaitSpeak"

\* C3 (as claimed): while no session is active, capture is not active and no
\* playback is in progress.
C3_TerminationCancels ==
    ~sessionActive => (~isListening /\ \A t \in TurnIds : ~Playing(t))

\* C4 (as claimed): at most one model turn of a session is outstanding.
C4_OneTurnOutstanding ==
    \A t1, t2 \in TurnIds :
        (AwaitingModel(t1) /\ AwaitingModel(t2) /\ turns[t1].session = turns[t2].session)
            => t1 = t2

\* C5 (as claimed): the history is empty whenever no session is active.
C5_HistoryEmptyWhenInactive ==
    ~sessionActive => conversationHistory = <<>>

\* C6 (as claimed): at most one of capture, an outstanding model turn and
\* playback is in progress.
C6_OneActivity ==
    LET capture == isListening
        thinking == \E t \in TurnIds : AwaitingModel(t)
        speaking == \E t \in TurnIds : Playing(t)
    IN  /\ ~(capture /\ thinking)
        /\ ~(capture /\ speaking)
        /\ ~(thinking /\ speaking)

\* the finalized transcript is an exit phrase, up to case and surrounding
\* white space
MatchesExitPhrase(text) ==
    \E k \in 1..Len(RUBBER_DUCKY_EXIT_PHRASES) :
        ToLowerCase(Trim(text)) = RUBBER_DUCKY_EXIT_PHRASES[k]

\* C7: when the user stops capture and the transcript matches an exit
\* phrase, the session ends in that step: the session flag and the history
\* are cleared, the status is idle, and no turn is started.
C7_ExitPhraseEndsSession ==
    [][(lastEvent'.op = "StopCapture" /\ MatchesExitPhrase(transcript)) =>
          /\ sessionActive' = FALSE
          /\ conversationHistory' = <<>>
          /\ rubberDuckyStatus' = "idle"
          /\ nextTurn' = nextTurn
          /\ turns' = turns]_vars

\* a session with a turn behind it has been ended by an exit phrase
C7_Witness ==
    /\ lastEvent.op = "StopCapture"
    /\ MatchesExitPhrase(transcript)
    /\ ~sessionActive
    /\ nextTurn >= 1

\* C8: when the user stops capture and the transcript is empty, the status
\* becomes idle, no turn is started and the history is unchanged.
C8_EmptyTranscriptIdle ==
    [][(lastEvent'.op = "StopCapture" /\ Trim(transcript) = <<>>) =>
          /\ rubberDuckyStatus' = "idle"
          /\ nextTurn' = nextTurn
          /\ turns' = turns
          /\ conversationHistory' = conversationHistory
          /\ sessionActive' = sessionActive]_vars

\* capture has been stopped with an empty transcript in a session that has
\* messages
C8_Witness ==
    /\ lastEvent.op = "StopCapture"
    /\ transcript = <<>>
    /\ sessionActive
    /\ rubberDuckyStatus = "idle"
    /\ conversationHistory # <<>>

\* the start-capture control can be used
StartCaptureEnabled == RecordButtonEnabled /\ ~isListening

\* C9 (as claimed): while a model turn of the session is outstanding, the
\* start-capture control is disabled.
C9_NoCaptureWhileProcessing ==
    \A t \in TurnIds :
        (AwaitingModel(t) /\ sessionActive /\ turns[t].session = sessionId)
            => ~StartCaptureEnabled

IsFallback(m) == m.role = "model" /\ m.content \in {"keyMissing", "errorMessage"}

\* C10: when the model call of a turn fails (no credential when the turn
\* begins, or the request throws), the step appends exactly one fallback
\* message of the model role at the end of the history (after the user's
\* message when the turn begins in that step), starts no playback, sets the
\* status to idle and ends the turn.
C10_ModelFailureFallback ==
    [][/\ \A t \in TurnIds :
            lastEvent' = Event("ModelFail", t) =>
               /\ Len(conversationHistory') = Len(conversationHistory) + 1
               /\ SubSeq(conversationHistory', 1, Len(conversationHistory)) = conversationHistory
               /\ IsFallback(conversationHistory'[Len(conversationHistory')])
               /\ rubberDuckyStatus' = "idle"
               /\ turns'[t].pc = "done"
               /\ UNCHANGED speechVars
               /\ \A u \in TurnIds : Playing(u)' => Playing(u)
       /\ (lastEvent'.op = "StopCapture" /\ nextTurn' # nextTurn /\ ~geminiKey) =>
               /\ Len(conversationHistory') = Len(conversationHistory) + 2
               /\ SubSeq(conversationHistory', 1, Len(conversationHistory)) = conversationHistory
               /\ conversationHistory'[Len(conversationHistory') - 1].role = "user"
               /\ IsFallback(conversationHistory'[Len(conversationHistory')])
               /\ rubberDuckyStatus' = "idle"
               /\ turns'[nextTurn'].pc = "done"
               /\ UNCHANGED speechVars
               /\ \A u \in TurnIds : Playing(u)' => Playing(u)]_vars

\* the model request of a turn has failed and its fallback follows the
\* user's message of that turn
C10_Witness ==
    /\ lastEvent.op = "ModelFail"
    /\ Len(conversationHistory) >= 2
    /\ conversationHistory[Len(conversationHistory) - 1] = UserMsg(lastEvent.id)
    /\ conversationHistory[Len(conversationHistory)] = ModelMsg(lastEvent.id, "errorMessage")
    /\ rubberDuckyStatus = "idle"

\* C30 (as claimed): while the status is listening the capture is active:
\* the status does not stay listening after the capture has ended, whether
\* the user or the speech provider ended it.
C30_ListeningMeansCapturing ==
    rubberDuckyStatus = "listening" => isListening

\* ------------------------------------------------------------------------
\* App: properties
\* ------------------------------------------------------------------------
\* C33 (as claimed): a response whose body is a well-formed array, put
\* between an opening fence (with or without the language tag) and a
\* closing fence (with or without a line break after it), gives the entries
\* that the array alone gives.
C33_FencesStripped ==
    [][\A r \in RunIds :
          ResolvesBatch(r) =>
              LET batch == BatchOf(runs[r].units, runs[r].i)
              IN  \A text \in Responses(batch) :
                      (/\ text.json
                       /\ ~Malformed(text)
                       /\ text.before \in FenceOpenings
                       /\ text.after \in FenceClosings) =>
                          LET bare == OutcomeOf(Fenced(text, <<>>, <<>>))
                          IN  /\ OutcomeOf(text).kind = bare.kind
                              /\ OutcomeOf(text).answered = bare.answered]_vars

\* the part of C33 that holds: the tagged opening fence and a closing fence
\* that ends the text are stripped
TaggedFenceStripped ==
    [][\A r \in RunIds :
          ResolvesBatch(r) =>
              LET batch == BatchOf(runs[r].units, runs[r].i)
              IN  \A text \in Responses(batch) :
                      (/\ text.json
                       /\ ~Malformed(text)
                       /\ text.before = <<"fence", "json", "\n">>
                       /\ text.after = <<"\n", "fence">>) =>
                          OutcomeOf(text).answered = BatchNames(batch)]_vars

\* the handlers that end a session, and the one that starts one
EndsSession == lastEvent'.op \in {"Done", "StartRubberDuckySession"} \/ (sessionActive /\ ~sessionActive')

\* C31 (as claimed): every change of the status is idle to listening by the
\* record button, listening to processing or to idle by the record button,
\* processing to speaking by the model's reply, speaking to idle by the end
\* (or failure) of the playback of the turn that was speaking, processing to
\* idle by a failure of the turn, or a change to idle that ends the session.
C31_OnlySpecifiedTransitions ==
    [][rubberDuckyStatus' # rubberDuckyStatus =>
          LET from == rubberDuckyStatus
              to == rubberDuckyStatus'
              op == lastEvent'.op
          IN  \/ from = "idle" /\ to = "listening" /\ op = "StartCapture"
              \/ from = "listening" /\ to = "processing" /\ op = "StopCapture"
              \/ from = "listening" /\ to = "idle" /\ op = "StopCapture"
              \/ from = "processing" /\ to = "speaking" /\ op = "ModelReply"
              \/ from = "speaking" /\ to = "idle" /\ op \in {"PlaybackEnd", "PlaybackFail"}
              \/ from = "processing" /\ to = "idle" /\ op \in {"ModelFail", "ModelReply"}
              \/ to = "idle" /\ EndsSession]_vars

\* C38 (as claimed): isSpeaking is true while a playback started by speak()
\* is in progress, and the cancel function held by the hook is the one of
\* every playback in progress.
C38_SpeakingWhilePlaying ==
    \A t \in TurnIds :
        Playing(t) => (isSpeaking /\ elevenLabsCancelRef = t)

\* C39 (as claimed): the history of the active session holds messages of
\* turns that began in that session only.
C39_SessionsIsolated ==
    sessionActive =>
        \A k \in 1..Len(conversationHistory) :
            turns[conversationHistory[k].turn].session = sessionId

\* C40 (as claimed): a turn appends one message of the model role; the
\* history never holds two of the same turn.
C40_OneModelMessagePerTurn ==
    \A t \in TurnIds :
        Cardinality({ k \in 1..Len(conversationHistory) :
                        /\ conversationHistory[k].role = "model"
                        /\ conversationHistory[k].turn = t }) <= 1

\* the step is a call of handleCodeChange
EditStep == lastEvent' = Event("HandleCodeChange", 0)

\* C17 (as claimed): an edit that changes the content of the active file
\* while the mode is teacher or reviewer restarts the debounce: the cleanup
\* of the pending timeout runs and the timeout pending afterwards captured
\* the new content of the active file, so that its expiry analyzes it.
C17_EveryEditRestartsDebounce ==
    [][(/\ EditStep
        /\ mode \in AnalyzableModes
        /\ Content(filesContent', fileName) # Content(filesContent, fileName)) =>
            /\ analysisRunRef' = analysisRunRef + 1
            /\ timer' = {Timeout(Content(filesContent', fileName), fileName)}]_vars

\* C18: countChangedLines gives 0 for identical texts and at least 1 for
\* every pair of different texts: the value handleCodeChange computes from
\* the content before the call and the content it is given.
C18_ZeroIffIdentical ==
    [][EditStep =>
          LET before == Content(filesContent, fileName)
              after == Content(filesContent', fileName)
          IN  /\ countChangedLines(before, before) = 0
              /\ countChangedLines(after, after) = 0
              /\ before = after => changedLines' = 0
              /\ before # after => changedLines' >= 1]_vars

\* two different texts whose lines agree at both ends have been compared
\* (the snapshot is still the text before the call)
C18_Witness ==
    /\ lastEvent = Event("HandleCodeChange", 0)
    /\ changedLines = 1
    /\ code = <<"a", "\n", "a">>
    /\ Content(filesContent, fileName) = <<"a">>

\* C19: a call of handleCodeChange adds its changed-line count to the
\* accumulator of the active file; if the sum reaches 5 the snapshot becomes
\* the new content and that accumulator becomes 0, otherwise the snapshot
\* stays as it was; the accumulators of the other files stay as they were.
C19_ThresholdRefresh ==
    [][EditStep =>
          LET sum == Pending(pendingAiLineChangesRef, fileName) + changedLines'
          IN  /\ IF sum >= 5
                 THEN /\ code' = Content(filesContent', fileName)
                      /\ Pending(pendingAiLineChangesRef', fileName) = 0
                 ELSE /\ code' = code
                      /\ Pending(pendingAiLineChangesRef', fileName) = sum
              /\ \A f \in (DOMAIN pendingAiLineChangesRef) \ {fileName} :
                     Pending(pendingAiLineChangesRef', f) = pendingAiLineChangesRef[f]]_vars

\* an edit of three changed lines has refreshed the snapshot, the earlier
\* edits having brought the accumulator to two or more
C19_Witness ==
    /\ lastEvent = Event("HandleCodeChange", 0)
    /\ changedLines = 3
    /\ Pending(pendingAiLineChangesRef, fileName) = 0
    /\ code = Content(filesContent, fileName)
    /\ code # initialFilesContent["main.py"]

\* C20 (as claimed): after the active file has been set by a selection, a
\* file creation, open-file or open-folder, the accumulator of the active
\* file is 0 and the snapshot is the content of the active file.
C20_SwitchReseeds ==
    lastEvent.op \in {"SelectFile", "CreateFile", "OpenFile", "OpenFolder"} =>
        /\ Pending(pendingAiLineChangesRef, fileName) = 0
        /\ code = Content(filesContent, fileName)

\* ------------------------------------------------------------------------
\* Vibe edits: properties
\* ------------------------------------------------------------------------
\* the step in which the outstanding call of runVibeTask applies an edit
AppliesEdit == vibeTask.pc = "await" /\ vibeTask'.pc = "applied"

\* the step in which a call of runVibeTask fails
VibeFails == vibeTask'.pc \in {"failed", "noEdit"} /\ vibeTask' # vibeTask

\* C21: applying an edit gives the agent's content to the file that was
\* active when the task was run and leaves every other file as it was; if
\* that file is not in filesContent any more, filesContent, aiPanelCode and
\* the accumulators are left as they were.
C21_AppliesToRequestFileOnly ==
    [][AppliesEdit =>
          LET f == vibeTask.fileName
          IN  /\ DOMAIN filesContent' = DOMAIN filesContent
              /\ \A g \in DOMAIN filesContent :
                     g # f => filesContent'[g] = filesContent[g]
              /\ f \in DOMAIN filesContent => filesContent'[f] = AgentContent
              /\ f \notin DOMAIN filesContent =>
                     UNCHANGED <<filesContent, code, pendingAiLineChangesRef>>]_vars

\* the part of C21 about the file contents alone
AppliesToFilesContent ==
    [][AppliesEdit =>
          LET f == vibeTask.fileName
          IN  /\ DOMAIN filesContent' = DOMAIN filesContent
              /\ \A g \in DOMAIN filesContent :
                     g # f => filesContent'[g] = filesContent[g]
              /\ f \in DOMAIN filesContent => filesContent'[f] = AgentContent]_vars

\* C22: when a call of runVibeTask fails, filesContent is left as it was,
\* the call has passed to setStatusMessage "Generating edits..." and then
\* exactly one message, which is the one shown, isAnalyzing is false, and
\* the message is the one of the missing key exactly when the key is missing.
C22_FailureLeavesFiles ==
    [][VibeFails =>
          /\ filesContent' = filesContent
          /\ statusCalls' = <<"Generating edits...", statusMessage'>>
          /\ statusMessage' # "Generating edits..."
          /\ ~isAnalyzing'
          /\ (statusMessage' = CatchMessage(MissingKeyError)) <=> ~openAiKey]_vars

\* the part of C22 that does not compare the messages
FailureLeavesFilesAndClearsBusy ==
    [][VibeFails =>
          /\ filesContent' = filesContent
          /\ statusCalls' = <<"Generating edits...", statusMessage'>>
          /\ statusMessage' # "Generating edits..."
          /\ ~isAnalyzing'
          /\ ~openAiKey => statusMessage' = CatchMessage(MissingKeyError)]_vars

\* C23: the code a call of runVibeTask captures for its request is the
\* content of the active file.
C23_RequestHoldsCurrentContent ==
    [][(vibeTask'.pc = "await" /\ vibeTask.pc # "await") =>
          vibeTask'.code = Content(filesContent, fileName)]_vars

\* C34: the accumulator of every file is between 0 and the threshold less
\* one.
C34_AccumulatorBelowThreshold ==
    \A f \in DOMAIN pendingAiLineChangesRef :
        /\ pendingAiLineChangesRef[f] >= 0
        /\ pendingAiLineChangesRef[f] < AI_REFRESH_LINE_THRESHOLD

\* an edit has been applied by a vibe task, which reset the accumulator of
\* its file, while the accumulator of another file, raised by edits, is one
\* below the threshold
C34_Witness ==
    /\ lastEvent.op = "VibeResolve"
    /\ vibeTask.pc = "applied"
    /\ pendingAiLineChangesRef[vibeTask.fileName] = 0
    /\ \E f \in DOMAIN pendingAiLineChangesRef :
           pendingAiLineChangesRef[f] = AI_REFRESH_LINE_THRESHOLD - 1

\* C37 (as claimed): applying the edit of a task that was run on a file
\* other than the active one leaves the snapshot aiPanelCode as it was, and
\* a snapshot that was the content of the active file stays so.
C37_SnapshotOfActiveFile ==
    [][(AppliesEdit /\ vibeTask.fileName # fileName) =>
          /\ code' = code
          /\ code = Content(filesContent, fileName) =>
                 code' = Content(filesContent', fileName')]_vars

\* ------------------------------------------------------------------------
\* Analysis runs and vibe tasks together: properties
\* ------------------------------------------------------------------------
\* C36 (as claimed): while the latest run has an outstanding request,
\* isAnalyzing is true.
C36_LatestRunBusy ==
    \A r \in RunIds :
        (analysisRunRef = r /\ runs[r].pc \in {"await", "awaitPlain"}) => isAnalyzing

\* C35 (as claimed): once the panel is in a mode that is not analyzed with
\* isAnalyzing set, isAnalyzing becomes false, unless the user goes back to
\* an analyzed mode.
C35_BusyEventuallyClears ==
    (mode \notin AnalyzableModes /\ isAnalyzing)
        ~> (~isAnalyzing \/ mode \in AnalyzableModes)

====
